---- MODULE Spec2Model ----
(***************************************************************************)
(* Fermi-Trade-SDK: the signing and transaction-encoding path.             *)
(*                                                                         *)
(* Byte strings the SDK builds itself (the Borsh encoding, the domain      *)
(* prefixes, the signing input) are sequences of numbers 0..255.           *)
(* The results of the library primitives the SDK calls (SHA-256, Ed25519,  *)
(* hex) are terms [alg, input, key]: SHA-256 and Ed25519 are taken to be   *)
(* deterministic and collision-free, hex::encode is a constructor that     *)
(* hex::decode undoes.  A term keeps the value it was computed from, so    *)
(* what was hashed and what was signed can be read back from a signature.  *)
(***************************************************************************)
EXTENDS Integers, Sequences, FiniteSets, TLC

VARIABLES
    keypair,        \* FermiClient.keypair / the &TradingKeypair the calls use
    clock,          \* SystemTime::now() in microseconds since UNIX_EPOCH
    order_call,     \* Option: the arguments sign_perp_order was called with
    signed_order,   \* Option<SignedOrder>: the artifact of that call
    resigned,       \* Option: the signature of a second sign_perp_order call
                    \*   with the same arguments
    cancel_call,    \* Option: the arguments sign_cancel was called with
    signed_cancel,  \* Option<SignedCancel>: the artifact of that call
    transaction,    \* Option<Transaction>: the request in flight
    result,         \* outcome of the most recent submit_order/submit_cancel
    client,         \* Option<FermiClient>: the client FermiClient::new built
    call,           \* per caller, Option: the place_perp_order or cancel_order
                    \*   call in progress, its position and its locals
    in_flight,      \* the requests sent on the client's channel and not yet
                    \*   answered
    previous,       \* Option: the last call that ended, and how
    calc,           \* Option: one evaluation of to_canonical, calculate_margin
                    \*   or of the passage of two u64 values through JSON text
    link,           \* per ContinuumClient with a channel of its own, Option:
                    \*   the submit_order call in progress on it
    sequencer       \* the remote sequencer: its next sequence number and the
                    \*   transactions it has ordered

\* What the calls through FermiClient use besides keypair and clock
facade == <<client, call, in_flight, previous>>

\* What the calls of signing.rs and continuum.rs on their own use
core == <<order_call, signed_order, resigned, cancel_call, signed_cancel,
          transaction, result>>

\* What the evaluations of single functions and the clients with channels
\* of their own use
rest == <<calc, link, sequencer>>

vars == <<keypair, clock, order_call, signed_order, resigned, cancel_call,
          signed_cancel, transaction, result, client, call, in_flight, previous,
          calc, link, sequencer>>

-----------------------------------------------------------------------------
(* Bounds of the model *)

NumKeys == 2
NumCallers == 2
NumChannels == 2
MaxTicks == 1
TickMicros == 1500

\* A system clock set before 1970: SystemTime::duration_since fails there.
PreEpoch == -1

-----------------------------------------------------------------------------
(* Option<T>: None is the empty sequence, Some(x) is <<x>> *)

None == <<>>
Some(x) == <<x>>
is_none(o) == o = <<>>
is_some(o) == o # <<>>
unwrap(o) == o[1]

-----------------------------------------------------------------------------
(* types.rs *)

\* Pubkey([u8; 32])
new_from_array(bytes) == [arr |-> bytes]
to_bytes(pk) == pk.arr

\* Faulty variant: the variants of OrderSide declared in the other order
OrderSideVariantsSellFirst == <<"Sell", "Buy">>

OrderSideVariants == <<"Buy", "Sell">>
MarketKindVariants == <<"Perp">>
PositionEffectVariants == <<"Open", "Close">>
MarginModeVariants == <<"Cross", "Isolated">>

\* impl From<Side> for OrderSide
OrderSide_from(side) == IF side = "Buy" THEN "Buy" ELSE "Sell"

\* impl Display for PositionEffect / MarginMode
PositionEffect_to_string(pe) == IF pe = "Open" THEN "open" ELSE "close"
MarginMode_to_string(mm) == IF mm = "Cross" THEN "cross" ELSE "isolated"

-----------------------------------------------------------------------------
(* bs58::encode, for the byte strings of the model: every leading zero     *)
(* byte gives a "1", the rest is the big-endian number written in base 58. *)

Base58Alphabet ==
    << "1","2","3","4","5","6","7","8","9","A","B","C","D","E","F","G","H",
       "J","K","L","M","N","P","Q","R","S","T","U","V","W","X","Y","Z","a",
       "b","c","d","e","f","g","h","i","j","k","m","n","o","p","q","r","s",
       "t","u","v","w","x","y","z" >>

RECURSIVE LeadingZeros(_)
LeadingZeros(bytes) ==
    IF bytes = <<>> \/ Head(bytes) # 0 THEN 0 ELSE 1 + LeadingZeros(Tail(bytes))

RECURSIVE BigEndianValue(_, _)
BigEndianValue(bytes, acc) ==
    IF bytes = <<>> THEN acc
    ELSE BigEndianValue(Tail(bytes), acc * 256 + Head(bytes))

RECURSIVE Base58Digits(_)
Base58Digits(n) ==
    IF n = 0 THEN ""
    ELSE Base58Digits(n \div 58) \o Base58Alphabet[(n % 58) + 1]

RECURSIVE Ones(_)
Ones(n) == IF n = 0 THEN "" ELSE "1" \o Ones(n - 1)

bs58_encode(bytes) ==
    LET z == LeadingZeros(bytes)
    IN  Ones(z) \o Base58Digits(BigEndianValue(SubSeq(bytes, z + 1, Len(bytes)), 0))

\* impl Display for Pubkey
Pubkey_to_string(pk) == bs58_encode(pk.arr)

-----------------------------------------------------------------------------
(* keypair.rs *)

\* Faulty variant: the signer is handed an empty buffer instead of the message
sign_empty_buffer(kp, message) ==
    [alg |-> "ed25519", input |-> [alg |-> "hex_lower", input |-> [alg |-> "sha256", input |-> <<>>, key |-> 0], key |-> 0], key |-> kp.secret]

\* Faulty variant: a randomised signature, its nonce drawn from the time of the call
sign_with_clock_nonce(kp, message) ==
    [alg |-> "ed25519", input |-> message, key |-> kp.secret, nonce |-> clock]

\* self.inner.sign(message).to_bytes(): Ed25519 (RFC 8032) is deterministic
TradingKeypair_sign(kp, message) ==
    [alg |-> "ed25519", input |-> message, key |-> kp.secret]

pubkey(kp) == new_from_array(kp.public)

\* Faulty variant: the text is made from the secret half of the key pair
pubkey_string_of_secret(kp) == bs58_encode([i \in 1..32 |-> IF i = 32 THEN kp.secret ELSE 0])

pubkey_string(kp) == bs58_encode(kp.public)
pubkey_bytes(kp) == kp.public

-----------------------------------------------------------------------------
(* Library primitives *)

Sha256_digest(data) == [alg |-> "sha256", input |-> data, key |-> 0]

\* hex::encode: lowercase hexadecimal text, two characters per byte
hex_encode(bytes) == [alg |-> "hex_lower", input |-> bytes, key |-> 0]

\* hex::decode: Ok(bytes) on hexadecimal text of either case, Err otherwise
hex_decode(text) ==
    IF text.alg \in {"hex_lower", "hex_upper"}
    THEN [ok |-> TRUE, value |-> text.input]
    ELSE [ok |-> FALSE, value |-> None]

\* Length in bytes of a term (of its text, for hexadecimal text)
RECURSIVE ByteLen(_)
ByteLen(t) ==
    CASE t.alg = "sha256" -> 32
      [] t.alg = "ed25519" -> 64
      [] t.alg \in {"hex_lower", "hex_upper"} -> 2 * ByteLen(t.input)

-----------------------------------------------------------------------------
(* borsh::BorshSerialize *)

RECURSIVE le_bytes(_, _)
le_bytes(v, n) == IF n = 0 THEN <<>> ELSE <<v % 256>> \o le_bytes(v \div 256, n - 1)

borsh_u64(v) == le_bytes(v, 8)
borsh_bool(b) == <<IF b THEN 1 ELSE 0>>
borsh_pubkey(pk) == pk.arr

\* #[derive(BorshSerialize)] on an enum: one byte, the variant's index in
\* the declaration
borsh_enum(variants, v) ==
    <<(CHOOSE i \in 1..Len(variants) : variants[i] = v) - 1>>

\* Faulty variant: None leaves no byte behind
borsh_option_u64_elided(o) == IF is_none(o) THEN <<>> ELSE <<1>> \o borsh_u64(unwrap(o))

borsh_option_u64(o) == IF is_none(o) THEN <<0>> ELSE <<1>> \o borsh_u64(unwrap(o))
borsh_option_enum(variants, o) ==
    IF is_none(o) THEN <<0>> ELSE <<1>> \o borsh_enum(variants, unwrap(o))

-----------------------------------------------------------------------------
(* signing.rs *)

\* b"FRM_DEX_ORDER:"
SIGNED_ORDER_PREFIX == <<70, 82, 77, 95, 68, 69, 88, 95, 79, 82, 68, 69, 82, 58>>
\* b"FRM_DEX_CANCEL:"
CANCEL_ORDER_PREFIX == <<70, 82, 77, 95, 68, 69, 88, 95, 67, 65, 78, 67, 69, 76, 58>>

\* Faulty variant: reduce_only left out of the struct
try_to_vec_without_reduce_only(intent) ==
    borsh_u64(intent.order_id)
    \o borsh_pubkey(intent.owner)
    \o borsh_enum(OrderSideVariants, intent.side)
    \o borsh_u64(intent.price)
    \o borsh_u64(intent.quantity)
    \o borsh_u64(intent.expiry)
    \o borsh_pubkey(intent.base_mint)
    \o borsh_pubkey(intent.quote_mint)
    \o borsh_enum(MarketKindVariants, intent.market_kind)
    \o borsh_option_u64(intent.leverage)
    \o borsh_option_enum(PositionEffectVariants, intent.position_effect)
    \o borsh_option_enum(MarginModeVariants, intent.margin_mode)
    \o borsh_option_u64(intent.margin_amount)
    \o borsh_bool(intent.liquidation)

\* Faulty variant: quantity declared before price
try_to_vec_quantity_first(intent) ==
    borsh_u64(intent.order_id)
    \o borsh_pubkey(intent.owner)
    \o borsh_enum(OrderSideVariants, intent.side)
    \o borsh_u64(intent.quantity)
    \o borsh_u64(intent.price)
    \o borsh_u64(intent.expiry)
    \o borsh_pubkey(intent.base_mint)
    \o borsh_pubkey(intent.quote_mint)
    \o borsh_enum(MarketKindVariants, intent.market_kind)
    \o borsh_option_u64(intent.leverage)
    \o borsh_option_enum(PositionEffectVariants, intent.position_effect)
    \o borsh_bool(intent.reduce_only)
    \o borsh_option_enum(MarginModeVariants, intent.margin_mode)
    \o borsh_option_u64(intent.margin_amount)
    \o borsh_bool(intent.liquidation)

\* #[derive(BorshSerialize)] struct PerpOrderIntentBorsh: the fields in the
\* order of their declaration
PerpOrderIntentBorsh_try_to_vec(intent) ==
    borsh_u64(intent.order_id)
    \o borsh_pubkey(intent.owner)
    \o borsh_enum(OrderSideVariants, intent.side)
    \o borsh_u64(intent.price)
    \o borsh_u64(intent.quantity)
    \o borsh_u64(intent.expiry)
    \o borsh_pubkey(intent.base_mint)
    \o borsh_pubkey(intent.quote_mint)
    \o borsh_enum(MarketKindVariants, intent.market_kind)
    \o borsh_option_u64(intent.leverage)
    \o borsh_option_enum(PositionEffectVariants, intent.position_effect)
    \o borsh_bool(intent.reduce_only)
    \o borsh_option_enum(MarginModeVariants, intent.margin_mode)
    \o borsh_option_u64(intent.margin_amount)
    \o borsh_bool(intent.liquidation)

\* #[derive(BorshSerialize)] struct CancelOrderData
CancelOrderData_try_to_vec(cancel_data) ==
    borsh_u64(cancel_data.order_id)
    \o borsh_pubkey(cancel_data.owner)
    \o borsh_pubkey(cancel_data.base_mint)
    \o borsh_pubkey(cancel_data.quote_mint)

\* Faulty variant: liquidation filled from the reduce_only argument
perp_order_intent_liquidation_slip(kp, a) ==
    [ order_id        |-> a.order_id,
      owner           |-> pubkey(kp),
      side            |-> OrderSide_from(a.side),
      price           |-> a.price,
      quantity        |-> a.quantity,
      expiry          |-> a.expiry,
      base_mint       |-> a.base_mint,
      quote_mint      |-> a.quote_mint,
      market_kind     |-> "Perp",
      leverage        |-> Some(a.leverage),
      position_effect |-> Some(a.position_effect),
      reduce_only     |-> a.reduce_only,
      margin_mode     |-> Some(a.margin_mode),
      margin_amount   |-> a.margin_amount,
      liquidation     |-> a.reduce_only ]

\* signing.rs:142-158, the intent sign_perp_order encodes; `a` holds the
\* arguments of the call
perp_order_intent(kp, a) ==
    [ order_id        |-> a.order_id,
      owner           |-> pubkey(kp),
      side            |-> OrderSide_from(a.side),
      price           |-> a.price,
      quantity        |-> a.quantity,
      expiry          |-> a.expiry,
      base_mint       |-> a.base_mint,
      quote_mint      |-> a.quote_mint,
      market_kind     |-> "Perp",
      leverage        |-> Some(a.leverage),
      position_effect |-> Some(a.position_effect),
      reduce_only     |-> a.reduce_only,
      margin_mode     |-> Some(a.margin_mode),
      margin_amount   |-> a.margin_amount,
      liquidation     |-> FALSE ]

\* Faulty variant: a margin amount that was not given is written as 0
order_intent_dto_margin_defaulted(kp, a) ==
    [ order_id        |-> a.order_id,
      owner           |-> pubkey_string(kp),
      side            |-> IF a.side = "Buy" THEN "Buy" ELSE "Sell",
      price           |-> a.price,
      quantity        |-> a.quantity,
      expiry          |-> a.expiry,
      base_mint       |-> Pubkey_to_string(a.base_mint),
      quote_mint      |-> Pubkey_to_string(a.quote_mint),
      market_kind     |-> "perp",
      leverage        |-> Some(a.leverage),
      position_effect |-> Some(PositionEffect_to_string(a.position_effect)),
      reduce_only     |-> a.reduce_only,
      margin_mode     |-> Some(MarginMode_to_string(a.margin_mode)),
      margin_amount   |-> IF is_none(a.margin_amount) THEN Some(0) ELSE a.margin_amount,
      liquidation     |-> FALSE ]

\* signing.rs:182-201, the JSON DTO of the same call
order_intent_dto(kp, a) ==
    [ order_id        |-> a.order_id,
      owner           |-> pubkey_string(kp),
      side            |-> IF a.side = "Buy" THEN "Buy" ELSE "Sell",
      price           |-> a.price,
      quantity        |-> a.quantity,
      expiry          |-> a.expiry,
      base_mint       |-> Pubkey_to_string(a.base_mint),
      quote_mint      |-> Pubkey_to_string(a.quote_mint),
      market_kind     |-> "perp",
      leverage        |-> Some(a.leverage),
      position_effect |-> Some(PositionEffect_to_string(a.position_effect)),
      reduce_only     |-> a.reduce_only,
      margin_mode     |-> Some(MarginMode_to_string(a.margin_mode)),
      margin_amount   |-> a.margin_amount,
      liquidation     |-> FALSE ]

\* Faulty variant: the raw digest is signed
hash_raw_message(data) == [alg |-> "sha256", input |-> data, key |-> 0]

\* 3. Hash: SHA256(data) -> hex string -> UTF-8 bytes
hash_hex_message(data) == hex_encode(Sha256_digest(data))

\* Steps 1 to 4 of sign_perp_order: the hex text of the signature
perp_order_signature_hex(kp, a) ==
    LET perp_intent == perp_order_intent(kp, a)
        data == SIGNED_ORDER_PREFIX \o PerpOrderIntentBorsh_try_to_vec(perp_intent)
        message == hash_hex_message(data)
        signature == TradingKeypair_sign(kp, message)
    IN  hex_encode(signature)

sign_perp_order(kp, order_id, side, price, quantity, expiry, base_mint, quote_mint, leverage, position_effect, margin_mode, margin_amount, reduce_only) ==
    LET a == [ order_id        |-> order_id,
               side            |-> side,
               price           |-> price,
               quantity        |-> quantity,
               expiry          |-> expiry,
               base_mint       |-> base_mint,
               quote_mint      |-> quote_mint,
               leverage        |-> leverage,
               position_effect |-> position_effect,
               margin_mode     |-> margin_mode,
               margin_amount   |-> margin_amount,
               reduce_only     |-> reduce_only ]
        request == [intent |-> order_intent_dto(kp, a),
                    signature |-> perp_order_signature_hex(kp, a)]
    IN  [order_id |-> order_id, request |-> request, owner_bytes |-> pubkey_bytes(kp)]

\* Steps 1 to 4 of sign_cancel: the hex text of the signature
cancel_signature_hex(kp, order_id, base_mint, quote_mint) ==
    LET cancel_data ==
            [ order_id   |-> order_id,
              owner      |-> pubkey(kp),
              base_mint  |-> base_mint,
              quote_mint |-> quote_mint ]
        data == CANCEL_ORDER_PREFIX \o CancelOrderData_try_to_vec(cancel_data)
        message == hash_hex_message(data)
        signature == TradingKeypair_sign(kp, message)
    IN  hex_encode(signature)

sign_cancel(kp, order_id, base_mint, quote_mint) ==
    LET request ==
            [ order_id   |-> order_id,
              owner      |-> pubkey_string(kp),
              base_mint  |-> Pubkey_to_string(base_mint),
              quote_mint |-> Pubkey_to_string(quote_mint),
              signature  |-> cancel_signature_hex(kp, order_id, base_mint, quote_mint) ]
    IN  [order_id |-> order_id, request |-> request, owner_bytes |-> pubkey_bytes(kp)]

\* serde_json::to_string(&self.request), read back by serde_json::from_str:
\* an object keyed by field name; a field marked skip_serializing_if =
\* "Option::is_none" has no key when it is None, and its value when Some
OrderIntentDto_json(dto) ==
    LET optional == {"leverage", "position_effect", "margin_mode", "margin_amount"}
        keys == {k \in DOMAIN dto : k \in optional => is_some(dto[k])}
    IN  [k \in keys |-> IF k \in optional THEN unwrap(dto[k]) ELSE dto[k]]

\* The fields of SignedOrderRequest and of CancelOrderRequest in the order of
\* their declaration, the order in which the derived Serialize writes them
SignedOrderRequest_fields == <<"intent", "signature">>

CancelOrderRequest_fields == <<"order_id", "owner", "base_mint", "quote_mint", "signature">>

SignedOrder_to_json(so) ==
    [intent |-> OrderIntentDto_json(so.request.intent),
     signature |-> so.request.signature]

SignedCancel_to_json(sc) == sc.request

-----------------------------------------------------------------------------
(* serde_json::Map *)

Map_insert(map, key, value) ==
    [k \in DOMAIN map \cup {key} |-> IF k = key THEN value ELSE map[k]]

\* Faulty variant: the entry is overwritten when the key is present
Map_or_insert_overwriting(map, key, value) == Map_insert(map, key, value)

\* map.entry(key).or_insert_with(|| value)
Map_or_insert(map, key, value) ==
    IF key \in DOMAIN map THEN map ELSE Map_insert(map, key, value)

\* map.extend(other): every entry of other is inserted
Map_extend(map, other) ==
    [k \in DOMAIN map \cup DOMAIN other |-> IF k \in DOMAIN other THEN other[k] ELSE map[k]]

\* The order of the keys of a field map that keeps its entries in the order
\* of their first insertion: a key that is present keeps its place
Keys_insert(keys, key) ==
    IF \E i \in DOMAIN keys : keys[i] = key THEN keys ELSE Append(keys, key)

RECURSIVE Keys_extend(_, _)
Keys_extend(keys, other) ==
    IF other = <<>> THEN keys
    ELSE Keys_extend(Keys_insert(keys, Head(other)), Tail(other))

\* The keys of the object read from a JSON text whose members come in the
\* order text_keys
Keys_from_str(text_keys) == Keys_extend(<<>>, text_keys)

-----------------------------------------------------------------------------
(* continuum.rs *)

\* Faulty variant: unwrap_or_default(), a clock before the epoch reads as 0
duration_since_epoch_or_default(now) ==
    IF now < 0 THEN [ok |-> TRUE, micros |-> 0] ELSE [ok |-> TRUE, micros |-> now]

\* SystemTime::now().duration_since(UNIX_EPOCH): Err when the clock reads a
\* time before the epoch
duration_since_epoch(now) ==
    IF now < 0 THEN [ok |-> FALSE, micros |-> 0] ELSE [ok |-> TRUE, micros |-> now]

\* Faulty variant: Duration::as_millis() as u64
as_millis(duration) == duration.micros \div 1000

\* Duration::as_micros() as u64
as_micros(duration) == duration.micros

\* Faulty variant: the two arguments of format! swapped
order_tx_id_swapped(order_id, timestamp) ==
    "frm_order_" \o ToString(timestamp) \o "_" \o ToString(order_id)

\* format!("frm_order_{}_{}", order_id, timestamp)
order_tx_id(order_id, timestamp) ==
    "frm_order_" \o ToString(order_id) \o "_" \o ToString(timestamp)

\* Faulty variant: the format string of submit_order is used
cancel_tx_id_as_order(order_id, timestamp) ==
    "frm_order_" \o ToString(order_id) \o "_" \o ToString(timestamp)

\* format!("frm_cancel_{}_{}", order_id, timestamp)
cancel_tx_id(order_id, timestamp) ==
    "frm_cancel_" \o ToString(order_id) \o "_" \o ToString(timestamp)

\* The bytes of "FRM_v1.0:", the text format! puts before the object
FRM_PAYLOAD_PREFIX == <<70, 82, 77, 95, 118, 49, 46, 48, 58>>

\* Faulty variant: the object is rendered without the version entry
frm_payload_without_version(json, text_keys, category, timestamp) ==
    LET obj1 == Map_insert(json, "local_sequencer_id", "fermi_trade_sdk")
        obj2 == Map_or_insert(obj1, "type", category)
        obj3 == Map_insert(obj2, "timestamp_ms", ToString(timestamp \div 1000))
        keys == Keys_insert(Keys_insert(Keys_insert(Keys_from_str(text_keys),
                    "local_sequencer_id"), "type"), "timestamp_ms")
    IN  <<FRM_PAYLOAD_PREFIX, obj3, keys>>

\* Faulty variant: the version entry is inserted after the request's entries
frm_payload_version_last(json, text_keys, category, timestamp) ==
    LET obj1 == Map_insert(json, "local_sequencer_id", "fermi_trade_sdk")
        obj2 == Map_or_insert(obj1, "type", category)
        obj3 == Map_insert(obj2, "timestamp_ms", ToString(timestamp \div 1000))
        keys == Keys_insert(Keys_insert(Keys_insert(Keys_from_str(text_keys),
                    "local_sequencer_id"), "type"), "timestamp_ms")
        frm_fields == Map_insert(Map_extend([k \in {} |-> ""], obj3), "version", "1.0")
        frm_keys == Keys_insert(Keys_extend(<<>>, keys), "version")
    IN  <<FRM_PAYLOAD_PREFIX, frm_fields, frm_keys>>

\* The FRM payload: the request's JSON object with the injected fields, under
\* a top-level object that starts with the version. json is the object read
\* from the request's JSON text and text_keys the order of its members in that
\* text; the payload is the prefix, the fields of the object rendered and the
\* order in which their keys are rendered
frm_payload(json, text_keys, category, timestamp) ==
    LET obj1 == Map_insert(json, "local_sequencer_id", "fermi_trade_sdk")
        obj2 == Map_or_insert(obj1, "type", category)
        obj3 == Map_insert(obj2, "timestamp_ms", ToString(timestamp \div 1000))
        keys == Keys_insert(Keys_insert(Keys_insert(Keys_from_str(text_keys),
                    "local_sequencer_id"), "type"), "timestamp_ms")
        frm_fields == Map_extend([version |-> "1.0"], obj3)
        frm_keys == Keys_extend(Keys_insert(<<>>, "version"), keys)
    IN  <<FRM_PAYLOAD_PREFIX, frm_fields, frm_keys>>

\* Faulty variant: the signature sent is one made over the payload
submit_order_request_signing_payload(so, now) ==
    LET order_json == SignedOrder_to_json(so)
        signature_bytes == hex_decode(so.request.signature)
        since == duration_since_epoch(now)
        timestamp == as_micros(since)
        tx_id == order_tx_id(so.order_id, timestamp)
        payload == frm_payload(order_json, SignedOrderRequest_fields, "order", timestamp)
    IN  IF ~signature_bytes.ok \/ ~since.ok
        THEN [ok |-> FALSE, err |-> "Signing", transaction |-> None]
        ELSE [ok |-> TRUE, err |-> "",
              transaction |-> Some(
                [ tx_id      |-> tx_id,
                  payload    |-> payload,
                  signature  |-> [signature_bytes.value EXCEPT !.input = payload],
                  public_key |-> so.owner_bytes,
                  nonce      |-> so.order_id,
                  timestamp  |-> timestamp ])]

\* submit_order up to the request it sends: Err(SdkError::Signing) when the
\* signature is no hex text or the clock cannot be read
submit_order_request(so, now) ==
    LET order_json == SignedOrder_to_json(so)
        signature_bytes == hex_decode(so.request.signature)
        since == duration_since_epoch(now)
        timestamp == as_micros(since)
        tx_id == order_tx_id(so.order_id, timestamp)
    IN  IF ~signature_bytes.ok \/ ~since.ok
        THEN [ok |-> FALSE, err |-> "Signing", transaction |-> None]
        ELSE [ok |-> TRUE, err |-> "",
              transaction |-> Some(
                [ tx_id      |-> tx_id,
                  payload    |-> frm_payload(order_json, SignedOrderRequest_fields, "order", timestamp),
                  signature  |-> signature_bytes.value,
                  public_key |-> so.owner_bytes,
                  nonce      |-> so.order_id,
                  timestamp  |-> timestamp ])]

submit_cancel_request(sc, now) ==
    LET cancel_json == SignedCancel_to_json(sc)
        signature_bytes == hex_decode(sc.request.signature)
        since == duration_since_epoch(now)
        timestamp == as_micros(since)
        tx_id == cancel_tx_id(sc.order_id, timestamp)
    IN  IF ~signature_bytes.ok \/ ~since.ok
        THEN [ok |-> FALSE, err |-> "Signing", transaction |-> None]
        ELSE [ok |-> TRUE, err |-> "",
              transaction |-> Some(
                [ tx_id      |-> tx_id,
                  payload    |-> frm_payload(cancel_json, CancelOrderRequest_fields, "cancel", timestamp),
                  signature  |-> signature_bytes.value,
                  public_key |-> sc.owner_bytes,
                  nonce      |-> sc.order_id,
                  timestamp  |-> timestamp ])]

-----------------------------------------------------------------------------
(* The inputs of the calls *)

\* Keypair::from_bytes([secret, public]): the two halves of the key file
Keypairs ==
    { [secret |-> k, public |-> [i \in 1..32 |-> IF i = 32 THEN 16 + k ELSE 0]]
        : k \in 1..NumKeys }

\* Pubkey::from_str("11111111111111111111111111111112") and "...13"
MintA == new_from_array([i \in 1..32 |-> IF i = 32 THEN 1 ELSE 0])
MintB == new_from_array([i \in 1..32 |-> IF i = 32 THEN 2 ELSE 0])
MintPairs == {<<MintA, MintB>>, <<MintB, MintA>>}

OrderIds == {12345, 12346}
Sides == {"Buy", "Sell"}
PositionEffects == {"Open", "Close"}
MarginModes == {"Cross", "Isolated"}
MarginAmounts == {None, Some(18550000)}

OrderArgs ==
    [ order_id        : OrderIds,
      side            : Sides,
      price           : {185500000},
      quantity        : {1000000000},
      expiry          : {1700000000},
      base_mint       : {MintA},
      quote_mint      : {MintB},
      leverage        : {10},
      position_effect : PositionEffects,
      margin_mode     : MarginModes,
      margin_amount   : MarginAmounts,
      reduce_only     : BOOLEAN ]

CancelArgs == [order_id : OrderIds, mints : MintPairs]

Instants == {PreEpoch} \cup {t * TickMicros : t \in 0..MaxTicks}

sign_order_with(kp, a) ==
    sign_perp_order(kp, a.order_id, a.side, a.price, a.quantity, a.expiry,
                    a.base_mint, a.quote_mint, a.leverage, a.position_effect,
                    a.margin_mode, a.margin_amount, a.reduce_only)

-----------------------------------------------------------------------------
(* The state machine of the signing and submission functions *)

\* The tasks that call into one FermiClient
Callers == 1..NumCallers

\* The ContinuumClients, each connected by a channel of its own
Channels == 1..NumChannels

\* Nothing is being evaluated, no channel is in use and the sequencer has
\* ordered nothing yet
RestIdle ==
    /\ calc = None
    /\ link = [i \in Channels |-> None]
    /\ sequencer = [next |-> 1, log |-> <<>>]

Init ==
    /\ keypair \in Keypairs
    /\ clock \in {PreEpoch, 0}
    /\ order_call = None
    /\ signed_order = None
    /\ resigned = None
    /\ cancel_call = None
    /\ signed_cancel = None
    /\ transaction = None
    /\ result = "none"
    /\ client = None
    /\ call = [c \in Callers |-> None]
    /\ in_flight = {}
    /\ previous = None
    /\ RestIdle

\* The wall clock moves on
Tick ==
    /\ \E t \in Instants : t > clock /\ clock' = t
    /\ UNCHANGED <<keypair, order_call, signed_order, resigned, cancel_call,
                   signed_cancel, transaction, result>>
    /\ UNCHANGED <<facade, rest>>

\* A call of sign_perp_order
SignPerpOrder ==
    /\ is_none(signed_order)
    /\ is_none(transaction)
    /\ \E a \in OrderArgs :
         /\ order_call' = Some(a)
         /\ signed_order' = Some(sign_order_with(keypair, a))
    /\ resigned' = None
    /\ UNCHANGED <<keypair, clock, cancel_call, signed_cancel, transaction, result>>
    /\ UNCHANGED <<facade, rest>>

\* A second call of sign_perp_order with the arguments of the first, while
\* the first call's artifact is still held
ResignPerpOrder ==
    /\ is_some(signed_order)
    /\ is_none(resigned)
    /\ resigned' =
         Some([ signature |-> sign_order_with(keypair, unwrap(order_call)).request.signature,
                in_flight |-> is_some(transaction) ])
    /\ UNCHANGED <<keypair, clock, order_call, signed_order, cancel_call,
                   signed_cancel, transaction, result>>
    /\ UNCHANGED <<facade, rest>>

\* A call of sign_cancel
SignCancel ==
    /\ is_none(signed_cancel)
    /\ is_none(transaction)
    /\ \E c \in CancelArgs :
         /\ cancel_call' = Some(c)
         /\ signed_cancel' = Some(sign_cancel(keypair, c.order_id, c.mints[1], c.mints[2]))
    /\ UNCHANGED <<keypair, clock, order_call, signed_order, resigned,
                   transaction, result>>
    /\ UNCHANGED <<facade, rest>>

\* submit_order up to the await of the response
SubmitOrder ==
    /\ is_some(signed_order)
    /\ is_none(transaction)
    /\ LET r == submit_order_request(unwrap(signed_order), clock)
       IN  IF r.ok
           THEN /\ transaction' = r.transaction
                /\ result' = "none"
                /\ UNCHANGED <<order_call, signed_order, resigned>>
           ELSE /\ transaction' = None
                /\ result' = r.err
                /\ order_call' = None
                /\ signed_order' = None
                /\ resigned' = None
    /\ UNCHANGED <<keypair, clock, cancel_call, signed_cancel>>
    /\ UNCHANGED <<facade, rest>>

\* submit_cancel up to the await of the response
SubmitCancel ==
    /\ is_some(signed_cancel)
    /\ is_none(transaction)
    /\ LET r == submit_cancel_request(unwrap(signed_cancel), clock)
       IN  IF r.ok
           THEN /\ transaction' = r.transaction
                /\ result' = "none"
                /\ UNCHANGED <<cancel_call, signed_cancel>>
           ELSE /\ transaction' = None
                /\ result' = r.err
                /\ cancel_call' = None
                /\ signed_cancel' = None
    /\ UNCHANGED <<keypair, clock, order_call, signed_order, resigned>>
    /\ UNCHANGED <<facade, rest>>

\* The sequencer answers: Ok(response) or Err(tonic::Status); the call
\* returns and its signed artifact goes out of scope
Respond ==
    /\ is_some(transaction)
    /\ \E r \in {"Ok", "ContinuumSubmission"} : result' = r
    /\ transaction' = None
    /\ IF unwrap(transaction).payload[2]["type"] = "order"
       THEN /\ order_call' = None
            /\ signed_order' = None
            /\ resigned' = None
            /\ UNCHANGED <<cancel_call, signed_cancel>>
       ELSE /\ cancel_call' = None
            /\ signed_cancel' = None
            /\ UNCHANGED <<order_call, signed_order, resigned>>
    /\ UNCHANGED <<keypair, clock>>
    /\ UNCHANGED <<facade, rest>>

Next ==
    \/ Tick
    \/ SignPerpOrder
    \/ ResignPerpOrder
    \/ SignCancel
    \/ SubmitOrder
    \/ SubmitCancel
    \/ Respond

Spec == Init /\ [][Next]_vars

-----------------------------------------------------------------------------
(* client.rs, rpc.rs: the values place_perp_order and cancel_order compute *)

\* A natural number of any size: the little-endian sequence of its digits
\* in base 2^15, without leading zero digits (u64 and the significands of
\* f64 do not fit the integers of the checker)
Limb == 2^15

RECURSIVE Trim(_)
Trim(a) == IF a # <<>> /\ a[Len(a)] = 0 THEN Trim(SubSeq(a, 1, Len(a) - 1)) ELSE a

RECURSIVE NatFromInt(_)
NatFromInt(n) == IF n = 0 THEN <<>> ELSE <<n % Limb>> \o NatFromInt(n \div Limb)

RECURSIVE NatToInt(_)
NatToInt(a) == IF a = <<>> THEN 0 ELSE a[1] + Limb * NatToInt(Tail(a))

Digit(a, i) == IF i <= Len(a) THEN a[i] ELSE 0

RECURSIVE AddFrom(_, _, _, _)
AddFrom(a, b, i, carry) ==
    IF i > Len(a) /\ i > Len(b)
    THEN IF carry = 0 THEN <<>> ELSE <<carry>>
    ELSE LET s == Digit(a, i) + Digit(b, i) + carry
         IN  <<s % Limb>> \o AddFrom(a, b, i + 1, s \div Limb)

NatAdd(a, b) == AddFrom(a, b, 1, 0)

RECURSIVE MulSmallFrom(_, _, _, _)
MulSmallFrom(a, k, i, carry) ==
    IF i > Len(a)
    THEN NatFromInt(carry)
    ELSE LET p == a[i] * k + carry
         IN  <<p % Limb>> \o MulSmallFrom(a, k, i + 1, p \div Limb)

\* a * k for k below 2^15
NatMulSmall(a, k) == Trim(MulSmallFrom(a, k, 1, 0))

\* a * 2^(15 n)
ShiftLimbs(a, n) == IF a = <<>> THEN <<>> ELSE [i \in 1..n |-> 0] \o a

RECURSIVE NatMulFrom(_, _, _)
NatMulFrom(a, b, i) ==
    IF i > Len(b)
    THEN <<>>
    ELSE NatAdd(NatMulSmall(a, b[i]), ShiftLimbs(NatMulFrom(a, b, i + 1), 1))

NatMul(a, b) == Trim(NatMulFrom(a, b, 1))

RECURSIVE DivSmallFrom(_, _, _, _)
DivSmallFrom(a, k, i, rem) ==
    IF i = 0
    THEN [q |-> <<>>, r |-> rem]
    ELSE LET cur == rem * Limb + a[i]
             lower == DivSmallFrom(a, k, i - 1, cur % k)
         IN  [q |-> Append(lower.q, cur \div k), r |-> lower.r]

\* Quotient and remainder of a by k, for k below 2^15
NatDivSmall(a, k) ==
    LET d == DivSmallFrom(a, k, Len(a), 0)
    IN  [q |-> Trim(d.q), r |-> d.r]

RECURSIVE SmallBitLen(_)
SmallBitLen(n) == IF n = 0 THEN 0 ELSE 1 + SmallBitLen(n \div 2)

BitLen(a) == IF a = <<>> THEN 0 ELSE 15 * (Len(a) - 1) + SmallBitLen(a[Len(a)])

ShiftLeft(a, s) == ShiftLimbs(NatMulSmall(a, 2^(s % 15)), s \div 15)

ShiftRight(a, s) == NatDivSmall(SubSeq(a, s \div 15 + 1, Len(a)), 2^(s % 15)).q

Bit(a, i) == (Digit(a, i \div 15 + 1) \div 2^(i % 15)) % 2

\* The t lowest bits of a are all 0
LowBitsZero(a, t) ==
    /\ \A i \in 1..(t \div 15) : Digit(a, i) = 0
    /\ Digit(a, t \div 15 + 1) % 2^(t % 15) = 0

\* u64::MAX
U64_MAX == <<32767, 32767, 32767, 32767, 15>>

\* A finite f64: (-1)^neg * mant * 2^exp with mant below 2^53 (or 2^53
\* itself after a carry; the value is what counts). The result of an
\* operation on f64 is the exact result n * 2^exp (inexact: a remainder
\* was cut off below n) rounded to nearest, ties to even, at 53 bits.
\* Exponent overflow and subnormals lie far from the values of the model.
round_to_f64(neg, n, exp, inexact) ==
    LET s == BitLen(n) - 53
    IN  IF s <= 0
        THEN [neg |-> neg, mant |-> n, exp |-> exp]
        ELSE LET q == ShiftRight(n, s)
                 guard == Bit(n, s - 1) = 1
                 sticky == inexact \/ ~LowBitsZero(n, s - 1)
                 up == guard /\ (sticky \/ Bit(q, 0) = 1)
             IN  [neg |-> neg, mant |-> IF up THEN NatAdd(q, <<1>>) ELSE q,
                  exp |-> exp + s]

RECURSIVE DivPow10(_, _, _)
DivPow10(a, e, inexact) ==
    IF e = 0
    THEN [q |-> a, inexact |-> inexact]
    ELSE LET d == NatDivSmall(a, 10)
         IN  DivPow10(d.q, e - 1, inexact \/ d.r # 0)

\* An f64 argument written as the decimal literal m * 10^(-e): the f64
\* nearest to it
Decimal(m, e) ==
    LET mag == IF m < 0 THEN 0 - m ELSE m
        k == 64 + 4 * e
        d == DivPow10(ShiftLeft(NatFromInt(mag), k), e, FALSE)
    IN  round_to_f64(m < 0, d.q, 0 - k, d.inexact)

RECURSIVE Pow10(_)
Pow10(n) == IF n = 0 THEN 1 ELSE 10 * Pow10(n - 1)

\* 10f64.powi(n): exact for the decimals of the model (10^n below 2^31)
f64_powi10(n) == [neg |-> FALSE, mant |-> NatFromInt(Pow10(n)), exp |-> 0]

\* x * y
f64_mul(x, y) == round_to_f64(x.neg # y.neg, NatMul(x.mant, y.mant), x.exp + y.exp, FALSE)

\* x / (k as f64), for k from 1 to 2^15 - 1
f64_div_u64(x, k) ==
    LET d == NatDivSmall(ShiftLeft(x.mant, 70), k)
    IN  round_to_f64(x.neg, d.q, x.exp - 70, d.r # 0)

\* x as u64: the fraction is cut off, a negative value gives 0 and a value
\* above u64::MAX gives u64::MAX
f64_as_u64(x) ==
    IF x.neg \/ x.mant = <<>>
    THEN <<>>
    ELSE LET v == IF x.exp >= 0 THEN ShiftLeft(x.mant, x.exp)
                  ELSE ShiftRight(x.mant, 0 - x.exp)
         IN  IF BitLen(v) > 64 THEN U64_MAX ELSE v

\* (value * 10f64.powi(decimals)) as u64
scale_as_u64(value, decimals) ==
    NatToInt(f64_as_u64(f64_mul(value, f64_powi10(decimals))))

\* Faulty variant: the multiplier of the price is used for the quantity too
to_canonical_one_multiplier(market, price, quantity) ==
    <<scale_as_u64(price, market.quote_decimals),
      scale_as_u64(quantity, market.quote_decimals)>>

to_canonical(market, price, quantity) ==
    <<scale_as_u64(price, market.quote_decimals),
      scale_as_u64(quantity, market.base_decimals)>>

\* Faulty variant: the leverage is left out
calculate_margin_unlevered(price, quantity, leverage) ==
    LET notional == f64_mul(price, quantity)
    IN  NatToInt(f64_as_u64(f64_mul(notional, f64_powi10(6))))

\* ((price * quantity) / (leverage as f64) * 1_000_000.0) as u64, for a
\* leverage from 1 to 2^15 - 1
calculate_margin(price, quantity, leverage) ==
    LET notional == f64_mul(price, quantity)
        margin == f64_div_u64(notional, leverage)
    IN  NatToInt(f64_as_u64(f64_mul(margin, f64_powi10(6))))

\* Pubkey::from_str: Ok for the base58 text of 32 bytes, Err(String) for
\* anything else; decoded by search among the identities of the model
Pubkey_from_str(text) ==
    LET hits == {pk \in {MintA, MintB} : Pubkey_to_string(pk) = text}
    IN  IF hits = {}
        THEN [ok |-> FALSE, value |-> None]
        ELSE [ok |-> TRUE, value |-> Some(CHOOSE pk \in hits : TRUE)]

\* The errors of error.rs: a kind and what it carries
SdkError(kind, detail) == [kind |-> kind, detail |-> detail]

SdkErrorKinds ==
    {"Keypair", "Signing", "ContinuumConnection", "ContinuumSubmission", "Rpc",
     "MarketNotFound", "AccountNotFound", "InvalidPubkey", "Serialization",
     "DecimalConversion", "Airdrop", "Config"}

\* impl From<tonic::Status> for SdkError
SdkError_from_status(status) ==
    SdkError("ContinuumSubmission", <<status.code, status.message>>)

\* How a call ended: Ok(value), Err(SdkError) or a panic that unwinds it
Returned(value) == [how |-> "Ok", kind |-> "", detail |-> value]
Failed(err) == [how |-> "Err", kind |-> err.kind, detail |-> err.detail]
Panicked == [how |-> "Panic", kind |-> "", detail |-> "unwrap on Err"]

\* The markets GET /markets lists
Markets ==
    { [ uuid |-> "sol-perp", base_mint |-> Pubkey_to_string(MintA),
        quote_mint |-> Pubkey_to_string(MintB),
        base_decimals |-> 9, quote_decimals |-> 6 ],
      [ uuid |-> "bad-mint", base_mint |-> "0OIl",
        quote_mint |-> Pubkey_to_string(MintB),
        base_decimals |-> 9, quote_decimals |-> 6 ] }

MarketIds == {"sol-perp", "bad-mint", "no-such-market"}

\* Faulty variant: an unknown market is answered with one of those listed
get_market_or_any(listed, market_id) ==
    IF ~listed.ok
    THEN [ok |-> FALSE, err |-> SdkError("Rpc", "request failed"), value |-> None]
    ELSE LET found == {m \in listed.markets : m.uuid = market_id}
         IN  [ok |-> TRUE, err |-> SdkError("", ""),
              value |-> Some(CHOOSE m \in (IF found = {} THEN listed.markets ELSE found) : TRUE)]

\* RpcClient::get_market on the answer of list_markets
get_market(listed, market_id) ==
    IF ~listed.ok
    THEN [ok |-> FALSE, err |-> SdkError("Rpc", "request failed"), value |-> None]
    ELSE LET found == {m \in listed.markets : m.uuid = market_id}
         IN  IF found = {}
             THEN [ok |-> FALSE, err |-> SdkError("MarketNotFound", market_id),
                   value |-> None]
             ELSE [ok |-> TRUE, err |-> SdkError("", ""),
                   value |-> Some(CHOOSE m \in found : TRUE)]

\* The answers list_markets can get
Listings == {[ok |-> FALSE, markets |-> {}], [ok |-> TRUE, markets |-> Markets]}

\* One second in microseconds
SecondMicros == 1000000

\* Duration::as_secs()
as_secs(duration) == duration.micros \div SecondMicros

\* The instants the wall clock of a client can show
ClientInstants == {PreEpoch} \cup {s * SecondMicros + TickMicros : s \in 0..MaxTicks}

\* Faulty variant: after a failed call the identifier of that call is used again
generate_order_id_reusing_failed(now) ==
    LET since == duration_since_epoch(now)
    IN  IF ~since.ok
        THEN [panicked |-> TRUE, value |-> 0]
        ELSE IF /\ is_some(previous)
                /\ unwrap(previous).outcome.how = "Err"
                /\ is_some(unwrap(previous).order_id)
        THEN [panicked |-> FALSE, value |-> unwrap(unwrap(previous).order_id)]
        ELSE [panicked |-> FALSE, value |-> as_micros(since)]

\* Faulty variant: an identifier equal to the last one is moved on by one
generate_order_id_bumped(now) ==
    LET since == duration_since_epoch(now)
        taken == /\ is_some(previous)
                 /\ unwrap(previous).order_id = Some(as_micros(since))
    IN  IF since.ok
        THEN [panicked |-> FALSE,
              value |-> IF taken THEN as_micros(since) + 1 ELSE as_micros(since)]
        ELSE [panicked |-> TRUE, value |-> 0]

\* generate_order_id(): duration_since(UNIX_EPOCH).unwrap().as_micros() as u64
generate_order_id(now) ==
    LET since == duration_since_epoch(now)
    IN  IF since.ok
        THEN [panicked |-> FALSE, value |-> as_micros(since)]
        ELSE [panicked |-> TRUE, value |-> 0]

\* Faulty variant: the clock is read in milliseconds
expiry_from_millis(now) ==
    LET since == duration_since_epoch(now)
    IN  IF since.ok
        THEN [ok |-> TRUE, value |-> since.micros \div 1000 + 3600]
        ELSE [ok |-> FALSE, value |-> 0]

\* place_perp_order, "Calculate expiry (1 hour from now)"
expiry_from(now) ==
    LET since == duration_since_epoch(now)
    IN  IF since.ok
        THEN [ok |-> TRUE, value |-> as_secs(since) + 3600]
        ELSE [ok |-> FALSE, value |-> 0]

\* The PerpOrder values callers pass
PerpOrders ==
    [ side            : Sides,
      price           : {Decimal(1855, 1)},
      quantity        : {Decimal(1, 0)},
      leverage        : {10},
      position_effect : {"Open"},
      margin_mode     : {"Cross"},
      reduce_only     : BOOLEAN ]


-----------------------------------------------------------------------------
(* The state machine of a FermiClient: FermiClient::new, then calls of      *)
(* place_perp_order and cancel_order by the callers, each call a future     *)
(* that suspends at its two awaits, and a wall clock that may be set to any *)
(* instant between two reads.                                               *)

\* ContinuumClient::connect: Channel::from_shared(endpoint)?.connect().await?
connect(endpoint_valid, reachable) ==
    IF ~endpoint_valid
    THEN [ok |-> FALSE, err |-> SdkError("ContinuumConnection", "Invalid endpoint")]
    ELSE IF ~reachable
    THEN [ok |-> FALSE, err |-> SdkError("ContinuumConnection", "Connection failed")]
    ELSE [ok |-> TRUE, err |-> SdkError("", "")]

\* What the channel hands back for a request: the sequencer's response, the
\* Status of a rejection, or the Status tonic makes of a transport failure
Answers ==
    { [ok |-> TRUE, source |-> "remote", code |-> "Ok", message |-> ""],
      [ok |-> FALSE, source |-> "remote", code |-> "InvalidArgument",
       message |-> "bad signature"],
      [ok |-> FALSE, source |-> "transport", code |-> "Unavailable",
       message |-> "transport error"] }

\* Faulty variant: any number of calls may hold the client
borrow_shared(calls) == TRUE

\* &mut self: a call borrows the client exclusively until its future ends
borrow_free(calls) == \A c \in DOMAIN calls : is_none(calls[c])

\* Faulty variant: a rejected request is sent again
on_submit_error_retrying(status) ==
    [retry |-> TRUE, err |-> SdkError_from_status(status)]

\* self.client.submit_transaction(request).await?: the Status is converted
\* and returned at once
on_submit_error(status) ==
    [retry |-> FALSE, err |-> SdkError_from_status(status)]

\* The order ids cancel_order is called with
CancelIds == {t \in ClientInstants : t >= 0}

\* The locals of a call that has just begun
NewCall(op, market_id, order, cancel_id) ==
    [ op |-> op, pc |-> "get_market", market_id |-> market_id,
      order |-> order, cancel_id |-> cancel_id,
      market |-> None, amounts |-> None, order_id |-> None, id_read |-> None,
      expiry_read |-> None, signed |-> None, request |-> None, sent |-> 0,
      steps |-> <<>> ]

\* The call f goes on to the steps named
Stepped(f, names) == [f EXCEPT !.steps = f.steps \o names]

\* What a call signed: the order id, owner and mints of its JSON request,
\* and the same four fields of the encoding under its signature (in an order
\* the mints follow side, price, quantity and expiry, in a cancel the owner)
SignedIntent(f) ==
    LET request == unwrap(f.signed).request
        is_order == f.op = "place_perp_order"
        intent == IF is_order THEN request.intent ELSE request
        prefix == IF is_order THEN SIGNED_ORDER_PREFIX ELSE CANCEL_ORDER_PREFIX
        data == hex_decode(request.signature).value.input.input.input
        mints == Len(prefix) + (IF is_order THEN 65 ELSE 40)
    IN  [ order_id |-> intent.order_id, owner |-> intent.owner,
          base_mint |-> intent.base_mint, quote_mint |-> intent.quote_mint,
          encoded |-> [ order_id   |-> SubSeq(data, Len(prefix) + 1, Len(prefix) + 8),
                        owner      |-> SubSeq(data, Len(prefix) + 9, Len(prefix) + 40),
                        base_mint  |-> SubSeq(data, mints + 1, mints + 32),
                        quote_mint |-> SubSeq(data, mints + 33, mints + 64) ] ]

\* What is remembered of a call that ended
Ended(f, outcome, answer) ==
    [ op |-> f.op, market_id |-> f.market_id, order_id |-> f.order_id,
      id_read |-> f.id_read,
      nonce |-> IF is_some(f.request) THEN Some(unwrap(f.request).nonce) ELSE None,
      tx_id |-> IF is_some(f.request) THEN Some(unwrap(f.request).tx_id) ELSE None,
      intent |-> IF is_some(f.signed) THEN Some(SignedIntent(f)) ELSE None,
      sent |-> f.sent, steps |-> f.steps, outcome |-> outcome, answer |-> answer ]

\* The call of caller c ends: its future and every local of it are dropped
Return(c, f, outcome, answer) ==
    /\ call' = [call EXCEPT ![c] = None]
    /\ previous' = Some(Ended(f, outcome, answer))

ClientInit ==
    /\ keypair \in Keypairs
    /\ clock \in ClientInstants
    /\ order_call = None
    /\ signed_order = None
    /\ resigned = None
    /\ cancel_call = None
    /\ signed_cancel = None
    /\ transaction = None
    /\ result = "none"
    /\ client = None
    /\ call = [c \in Callers |-> None]
    /\ in_flight = {}
    /\ previous = None
    /\ RestIdle

\* SystemTime is not monotonic: the clock may show any other instant next
ClockMoves ==
    /\ \E t \in ClientInstants : t # clock /\ clock' = t
    /\ UNCHANGED <<keypair, core, facade, rest>>

\* FermiClient::new
NewClient ==
    /\ is_none(client)
    /\ \E endpoint_valid, reachable \in BOOLEAN :
         LET r == connect(endpoint_valid, reachable)
             f == NewCall("new", "", None, None)
         IN  IF r.ok
             THEN /\ client' = Some([continuum |-> "connected", rpc |-> "ready"])
                  /\ previous' = Some(Ended(f, Returned("client"), None))
             ELSE /\ client' = None
                  /\ previous' = Some(Ended(f, Failed(r.err), None))
    /\ UNCHANGED <<keypair, clock, core, rest, call, in_flight>>

\* A caller calls place_perp_order; the call suspends in rpc.get_market
PlacePerpOrder(c) ==
    /\ is_some(client)
    /\ borrow_free(call)
    /\ is_none(call[c])
    /\ \E market_id \in MarketIds, order \in PerpOrders :
         call' = [call EXCEPT ![c] = Some(NewCall("place_perp_order", market_id,
                                                  Some(order), None))]
    /\ UNCHANGED <<keypair, clock, core, rest, client, in_flight, previous>>

\* A caller calls cancel_order; the call suspends in rpc.get_market
CancelOrder(c) ==
    /\ is_some(client)
    /\ borrow_free(call)
    /\ is_none(call[c])
    /\ \E market_id \in MarketIds, order_id \in CancelIds :
         call' = [call EXCEPT ![c] = Some(NewCall("cancel_order", market_id,
                                                  None, Some(order_id)))]
    /\ UNCHANGED <<keypair, clock, core, rest, client, in_flight, previous>>

\* rpc.get_market answers; the call runs on to its next clock read: for
\* place_perp_order through to_canonical, calculate_margin and the parsing
\* of the mints, for cancel_order through the parsing and sign_cancel
MarketFetched(c) ==
    /\ is_some(call[c])
    /\ unwrap(call[c]).pc = "get_market"
    /\ \E listed \in Listings :
         LET f == unwrap(call[c])
             r == get_market(listed, f.market_id)
             market == unwrap(r.value)
             looked == Stepped(f, <<"get_market">>)
             converted == IF f.op = "place_perp_order"
                          THEN Stepped(looked, <<"to_canonical", "calculate_margin">>)
                          ELSE looked
             parsed == Stepped(converted, <<"Pubkey::from_str">>)
             base_mint == Pubkey_from_str(market.base_mint)
             quote_mint == Pubkey_from_str(market.quote_mint)
         IN  IF ~r.ok
             THEN Return(c, looked, Failed(r.err), None)
             ELSE IF ~base_mint.ok
             THEN Return(c, parsed, Failed(SdkError("InvalidPubkey", "base_mint")), None)
             ELSE IF ~quote_mint.ok
             THEN Return(c, parsed, Failed(SdkError("InvalidPubkey", "quote_mint")), None)
             ELSE IF f.op = "place_perp_order"
             THEN LET order == unwrap(f.order)
                      canonical == to_canonical(market, order.price, order.quantity)
                      amounts ==
                        [ price         |-> canonical[1],
                          quantity      |-> canonical[2],
                          margin_amount |-> calculate_margin(order.price, order.quantity,
                                                             order.leverage),
                          base_mint     |-> unwrap(base_mint.value),
                          quote_mint    |-> unwrap(quote_mint.value) ]
                  IN  /\ call' = [call EXCEPT ![c] =
                                    Some([parsed EXCEPT !.pc = "order_id",
                                                        !.market = Some(market),
                                                        !.amounts = Some(amounts)])]
                      /\ UNCHANGED previous
             ELSE /\ call' = [call EXCEPT ![c] =
                                Some([Stepped(parsed, <<"sign_cancel">>) EXCEPT
                                        !.pc = "submit",
                                        !.market = Some(market),
                                        !.order_id = f.cancel_id,
                                        !.signed = Some(sign_cancel(keypair,
                                            unwrap(f.cancel_id),
                                            unwrap(base_mint.value),
                                            unwrap(quote_mint.value)))])]
                  /\ UNCHANGED previous
    /\ UNCHANGED <<keypair, clock, core, rest, client, in_flight>>

\* place_perp_order: let order_id = generate_order_id()
GenerateOrderId(c) ==
    /\ is_some(call[c])
    /\ unwrap(call[c]).pc = "order_id"
    /\ LET f == Stepped(unwrap(call[c]), <<"generate_order_id">>)
           id == generate_order_id(clock)
       IN  IF id.panicked
           THEN Return(c, f, Panicked, None)
           ELSE /\ call' = [call EXCEPT ![c] =
                              Some([f EXCEPT !.pc = "expiry",
                                             !.order_id = Some(id.value),
                                             !.id_read = Some(clock)])]
                /\ UNCHANGED previous
    /\ UNCHANGED <<keypair, clock, core, rest, client, in_flight>>

\* place_perp_order: the expiry from a second clock read, then sign_perp_order
SignOrder(c) ==
    /\ is_some(call[c])
    /\ unwrap(call[c]).pc = "expiry"
    /\ LET f == Stepped(unwrap(call[c]), <<"expiry">>)
           order == unwrap(f.order)
           a == unwrap(f.amounts)
           expiry == expiry_from(clock)
       IN  IF ~expiry.ok
           THEN Return(c, f, Failed(SdkError("Signing", "clock")), None)
           ELSE /\ call' = [call EXCEPT ![c] =
                              Some([Stepped(f, <<"sign_perp_order">>) EXCEPT
                                             !.pc = "submit",
                                             !.expiry_read = Some(clock),
                                             !.signed = Some(sign_perp_order(keypair,
                                                 unwrap(f.order_id), order.side, a.price,
                                                 a.quantity, expiry.value, a.base_mint,
                                                 a.quote_mint, order.leverage,
                                                 order.position_effect, order.margin_mode,
                                                 Some(a.margin_amount), order.reduce_only))])]
                /\ UNCHANGED previous
    /\ UNCHANGED <<keypair, clock, core, rest, client, in_flight>>

\* submit_order / submit_cancel up to the await of submit_transaction: a
\* third clock read, the envelope, and the request goes onto the channel
Send(c) ==
    /\ is_some(call[c])
    /\ unwrap(call[c]).pc = "submit"
    /\ LET f == Stepped(unwrap(call[c]),
                        IF unwrap(call[c]).op = "place_perp_order"
                        THEN <<"submit_order">> ELSE <<"submit_cancel">>)
           r == IF f.op = "place_perp_order"
                THEN submit_order_request(unwrap(f.signed), clock)
                ELSE submit_cancel_request(unwrap(f.signed), clock)
       IN  IF ~r.ok
           THEN /\ Return(c, f, Failed(SdkError(r.err, "clock")), None)
                /\ UNCHANGED in_flight
           ELSE /\ in_flight' = in_flight \cup {unwrap(r.transaction)}
                /\ call' = [call EXCEPT ![c] =
                              Some([f EXCEPT !.pc = "response",
                                             !.request = r.transaction,
                                             !.sent = f.sent + 1])]
                /\ UNCHANGED previous
    /\ UNCHANGED <<keypair, clock, core, rest, client>>

\* The await of submit_transaction ends: Ok(response) gives the result,
\* Err(Status) is converted by `?` and returned
Answer(c) ==
    /\ is_some(call[c])
    /\ unwrap(call[c]).pc = "response"
    /\ \E answer \in Answers :
         LET f == unwrap(call[c])
             handled == on_submit_error(answer)
         IN  /\ in_flight' = in_flight \ {unwrap(f.request)}
             /\ IF answer.ok
                THEN Return(c, f, Returned([order_id |-> unwrap(f.signed).order_id]),
                            Some(answer))
                ELSE IF handled.retry
                THEN /\ call' = [call EXCEPT ![c] = Some([f EXCEPT !.pc = "submit"])]
                     /\ UNCHANGED previous
                ELSE Return(c, f, Failed(handled.err), Some(answer))
    /\ UNCHANGED <<keypair, clock, core, rest, client>>

ClientNext ==
    \/ ClockMoves
    \/ NewClient
    \/ \E c \in Callers : PlacePerpOrder(c)
    \/ \E c \in Callers : CancelOrder(c)
    \/ \E c \in Callers : MarketFetched(c)
    \/ \E c \in Callers : GenerateOrderId(c)
    \/ \E c \in Callers : SignOrder(c)
    \/ \E c \in Callers : Send(c)
    \/ \E c \in Callers : Answer(c)

ClientSpec == ClientInit /\ [][ClientNext]_vars

-----------------------------------------------------------------------------
(* ContinuumClients with a channel each: every one of them submits an order *)
(* with submit_order while the others do, and the remote sequencer gives    *)
(* each transaction the next sequence number when it arrives.               *)

\* The signed orders the clients submit
ChannelOrders ==
    {a \in OrderArgs : /\ a.side = "Buy"
                       /\ a.position_effect = "Open"
                       /\ a.margin_mode = "Cross"
                       /\ a.margin_amount = Some(18550000)
                       /\ ~a.reduce_only}

\* The sequencer's response to SubmitTransaction for the transaction it
\* puts at place n
SubmitTransactionResponse(n, tx) ==
    [sequence_number |-> n, expected_tick |-> n, tx_hash |-> tx.tx_id]

\* Faulty variant: the sequence number is not the one of the response
order_result_unsequenced(signed, response) ==
    [ order_id        |-> signed.order_id,
      sequence_number |-> signed.order_id,
      expected_tick   |-> response.expected_tick,
      tx_hash         |-> response.tx_hash ]

\* Ok(OrderResult { .. }) at the end of submit_order
order_result(signed, response) ==
    [ order_id        |-> signed.order_id,
      sequence_number |-> response.sequence_number,
      expected_tick   |-> response.expected_tick,
      tx_hash         |-> response.tx_hash ]

\* The calls of submit_order that have begun
Issued == {i \in Channels : is_some(link[i])}

ChannelInit ==
    /\ keypair \in Keypairs
    /\ clock \in Instants
    /\ order_call = None
    /\ signed_order = None
    /\ resigned = None
    /\ cancel_call = None
    /\ signed_cancel = None
    /\ transaction = None
    /\ result = "none"
    /\ client = None
    /\ call = [c \in Callers |-> None]
    /\ in_flight = {}
    /\ previous = None
    /\ RestIdle

\* submit_order on the client of channel i, up to the await of the
\* response: the request is on its way, or the call has returned an error
SubmitOn(i) ==
    /\ is_none(link[i])
    /\ \E a \in ChannelOrders :
         LET signed == sign_order_with(keypair, a)
             r == submit_order_request(signed, clock)
             begun == [ issued |-> Cardinality(Issued) + 1, signed |-> signed,
                        request |-> r.transaction, response |-> None ]
         IN  link' = [link EXCEPT ![i] =
                        Some(IF r.ok
                             THEN begun @@ [pc |-> "sent", result |-> None]
                             ELSE begun @@ [pc |-> "done",
                                            result |-> Some(Failed(SdkError(r.err, "clock")))])]
    /\ UNCHANGED <<keypair, clock, core, facade, calc, sequencer>>

\* The request sent on channel i arrives at the sequencer, which orders it
Sequence(i) ==
    /\ is_some(link[i])
    /\ unwrap(link[i]).pc = "sent"
    /\ LET f == unwrap(link[i])
           response == SubmitTransactionResponse(sequencer.next, unwrap(f.request))
       IN  /\ link' = [link EXCEPT ![i] =
                         Some([f EXCEPT !.pc = "ordered", !.response = Some(response)])]
           /\ sequencer' = [next |-> sequencer.next + 1, log |-> Append(sequencer.log, i)]
    /\ UNCHANGED <<keypair, clock, core, facade, calc>>

\* The response arrives on channel i and submit_order returns its result
Reply(i) ==
    /\ is_some(link[i])
    /\ unwrap(link[i]).pc = "ordered"
    /\ LET f == unwrap(link[i])
       IN  link' = [link EXCEPT ![i] =
                      Some([f EXCEPT !.pc = "done",
                                     !.result = Some(Returned(order_result(f.signed,
                                                                      unwrap(f.response))))])]
    /\ UNCHANGED <<keypair, clock, core, facade, calc, sequencer>>

ChannelNext ==
    \/ \E i \in Channels : SubmitOn(i)
    \/ \E i \in Channels : Sequence(i)
    \/ \E i \in Channels : Reply(i)

ChannelSpec == ChannelInit /\ [][ChannelNext]_vars

-----------------------------------------------------------------------------
(* Single evaluations: to_canonical and calculate_margin on the f64 values  *)
(* of an order, and the passage of the u64 price and quantity of an intent  *)
(* through serde_json: to_string, from_str, and the rendering of the Value. *)

RECURSIVE u64_digits(_)
u64_digits(v) ==
    IF v = <<>>
    THEN <<>>
    ELSE LET d == NatDivSmall(v, 10)
         IN  Append(u64_digits(d.q), 48 + d.r)

\* A u64 written by serde_json (itoa): its decimal digits in ASCII
u64_to_string(v) == IF v = <<>> THEN <<48>> ELSE u64_digits(v)

\* The number the digits of a text denote, from digit i on, after acc
RECURSIVE digits_from(_, _, _)
digits_from(text, i, acc) ==
    IF i > Len(text)
    THEN acc
    ELSE LET next == NatAdd(NatMulSmall(acc, 10), NatFromInt(text[i] - 48))
         IN  IF Len(next) >= 0 THEN digits_from(text, i + 1, next) ELSE next

digits_value(text) == digits_from(text, 1, <<>>)

\* serde_json reading a number without sign, fraction or exponent: the
\* digits are gathered in a u64, and a number that does not fit is read as
\* an f64 instead
RECURSIVE parse_integer(_, _, _)
parse_integer(text, i, significand) ==
    IF i > Len(text)
    THEN [kind |-> "PosInt", value |-> significand]
    ELSE LET next == NatAdd(NatMulSmall(significand, 10), NatFromInt(text[i] - 48))
         IN  IF BitLen(next) > 64
             THEN [kind |-> "Float",
                   value |-> round_to_f64(FALSE, digits_value(text), 0, FALSE)]
             ELSE parse_integer(text, i + 1, next)

\* Faulty variant: every number is read as an f64 and cast back
from_str_number_through_f64(text) ==
    [kind |-> "PosInt",
     value |-> f64_as_u64(round_to_f64(FALSE, digits_value(text), 0, FALSE))]

\* serde_json::from_str on the text of a number: Value::Number
from_str_number(text) == parse_integer(text, 1, <<>>)

\* Display of a Value::Number: a u64 by its digits, an f64 with a fraction
Number_to_string(number) ==
    IF number.kind = "PosInt"
    THEN u64_to_string(number.value)
    ELSE u64_to_string(f64_as_u64(number.value)) \o <<46, 48>>

\* The f64 prices, quantities and the leverages of the orders evaluated
Prices == {Decimal(200, 0), Decimal(1855, 1), Decimal(201, 2)}
Quantities == {Decimal(1, 0), Decimal(1, 1), Decimal(3, 1)}
Leverages == {1, 5, 10}

\* The markets evaluated: those of the registry and one with other decimals
UnitMarkets ==
    Markets \cup { [ uuid |-> "eth-perp", base_mint |-> Pubkey_to_string(MintB),
                     quote_mint |-> Pubkey_to_string(MintA),
                     base_decimals |-> 4, quote_decimals |-> 2 ] }

\* The u64 prices and quantities of the intents serialised
U64Samples ==
    { NatFromInt(0), NatFromInt(7), NatFromInt(185500000), NatFromInt(1000000000),
      ShiftLeft(<<1>>, 32), ShiftLeft(<<1>>, 53), NatAdd(ShiftLeft(<<1>>, 53), <<1>>),
      ShiftLeft(<<1>>, 63), U64_MAX }

CalcInputs ==
    [ op : {"units"}, price : Prices, quantity : Quantities, leverage : Leverages,
      market : UnitMarkets, canonical : {None}, margin : {None} ]
    \cup
    [ op : {"json"}, price : U64Samples, quantity : U64Samples,
      text : {None}, value : {None}, payload : {None} ]

CalcInit ==
    /\ keypair \in Keypairs
    /\ clock = 0
    /\ order_call = None
    /\ signed_order = None
    /\ resigned = None
    /\ cancel_call = None
    /\ signed_cancel = None
    /\ transaction = None
    /\ result = "none"
    /\ client = None
    /\ call = [c \in Callers |-> None]
    /\ in_flight = {}
    /\ previous = None
    /\ calc \in {Some(x) : x \in CalcInputs}
    /\ link = [i \in Channels |-> None]
    /\ sequencer = [next |-> 1, log |-> <<>>]

\* self.to_canonical(&market, order.price, order.quantity)?
ToCanonical ==
    /\ unwrap(calc).op = "units"
    /\ is_none(unwrap(calc).canonical)
    /\ LET x == unwrap(calc)
       IN  calc' = Some([x EXCEPT !.canonical =
                           Some(to_canonical(x.market, x.price, x.quantity))])
    /\ UNCHANGED <<keypair, clock, core, facade, link, sequencer>>

\* self.calculate_margin(order.price, order.quantity, order.leverage)
CalculateMargin ==
    /\ unwrap(calc).op = "units"
    /\ is_none(unwrap(calc).margin)
    /\ LET x == unwrap(calc)
       IN  calc' = Some([x EXCEPT !.margin =
                           Some(calculate_margin(x.price, x.quantity, x.leverage))])
    /\ UNCHANGED <<keypair, clock, core, facade, link, sequencer>>

\* signed_order.to_json(): the digits of price and quantity in the text
ToJson ==
    /\ unwrap(calc).op = "json"
    /\ is_none(unwrap(calc).text)
    /\ LET x == unwrap(calc)
       IN  calc' = Some([x EXCEPT !.text =
                           Some([price |-> u64_to_string(x.price),
                                 quantity |-> u64_to_string(x.quantity)])])
    /\ UNCHANGED <<keypair, clock, core, facade, link, sequencer>>

\* serde_json::from_str(&order_json): the numbers of the Value
FromStr ==
    /\ unwrap(calc).op = "json"
    /\ is_some(unwrap(calc).text)
    /\ is_none(unwrap(calc).value)
    /\ LET x == unwrap(calc)
       IN  calc' = Some([x EXCEPT !.value =
                           Some([price |-> from_str_number(unwrap(x.text).price),
                                 quantity |-> from_str_number(unwrap(x.text).quantity)])])
    /\ UNCHANGED <<keypair, clock, core, facade, link, sequencer>>

\* format!("FRM_v1.0:{}", frm_transaction): the numbers in the payload
Render ==
    /\ unwrap(calc).op = "json"
    /\ is_some(unwrap(calc).value)
    /\ is_none(unwrap(calc).payload)
    /\ LET x == unwrap(calc)
       IN  calc' = Some([x EXCEPT !.payload =
                           Some([price |-> Number_to_string(unwrap(x.value).price),
                                 quantity |-> Number_to_string(unwrap(x.value).quantity)])])
    /\ UNCHANGED <<keypair, clock, core, facade, link, sequencer>>

CalcNext ==
    \/ ToCanonical
    \/ CalculateMargin
    \/ ToJson
    \/ FromStr
    \/ Render

CalcSpec == CalcInit /\ [][CalcNext]_vars

-----------------------------------------------------------------------------
(* Reading a signature back: what was signed, hashed and encoded *)

SignatureBytes(signature_hex) == hex_decode(signature_hex).value
SignedMessage(signature_hex) == SignatureBytes(signature_hex).input
SignedDigest(signature_hex) == SignedMessage(signature_hex).input
SigningInput(signature_hex) == SignedDigest(signature_hex).input

Drop(seq, n) == SubSeq(seq, n + 1, Len(seq))

\* The encoded bytes that follow the domain prefix in the signing input
OrderSignedBytes ==
    Drop(SigningInput(unwrap(signed_order).request.signature), Len(SIGNED_ORDER_PREFIX))
CancelSignedBytes ==
    Drop(SigningInput(unwrap(signed_cancel).request.signature), Len(CANCEL_ORDER_PREFIX))

\* 8 little-endian bytes of a 64-bit integer below 2^31
Le8(v) == [i \in 1..8 |-> IF i <= 4 THEN (v \div (256 ^ (i - 1))) % 256 ELSE 0]

Flag(b) == IF b THEN 1 ELSE 0

-----------------------------------------------------------------------------
(* C1: the bytes sign_perp_order signs are the fields order_id, owner,     *)
(* side, price, quantity, expiry, base_mint, quote_mint, market_kind,      *)
(* leverage, position_effect, reduce_only, margin_mode, margin_amount,     *)
(* liquidation in this order, and those sign_cancel signs are order_id,    *)
(* owner, base_mint, quote_mint; a 64-bit integer takes 8 little-endian    *)
(* bytes, an identity its raw 32 bytes, a boolean one byte.                *)

C1_OrderLayout(kp, a) ==
    Le8(a.order_id)
    \o kp.public
    \o <<IF a.side = "Buy" THEN 0 ELSE 1>>
    \o Le8(a.price)
    \o Le8(a.quantity)
    \o Le8(a.expiry)
    \o a.base_mint.arr
    \o a.quote_mint.arr
    \o <<0>>
    \o <<1>> \o Le8(a.leverage)
    \o <<1, IF a.position_effect = "Open" THEN 0 ELSE 1>>
    \o <<Flag(a.reduce_only)>>
    \o <<1, IF a.margin_mode = "Cross" THEN 0 ELSE 1>>
    \o (IF a.margin_amount = None THEN <<0>> ELSE <<1>> \o Le8(a.margin_amount[1]))
    \o <<0>>

C1_CancelLayout(kp, c) ==
    Le8(c.order_id) \o kp.public \o c.mints[1].arr \o c.mints[2].arr

\* C1: the signed bytes of every held order and cancel have the layout above
C1_FieldOrder ==
    /\ is_some(signed_order) =>
         OrderSignedBytes = C1_OrderLayout(keypair, unwrap(order_call))
    /\ is_some(signed_cancel) =>
         CancelSignedBytes = C1_CancelLayout(keypair, unwrap(cancel_call))

C1_Witness ==
    /\ is_some(signed_order)
    /\ is_some(signed_cancel)
    /\ unwrap(order_call).side = "Sell"
    /\ unwrap(order_call).reduce_only
    /\ is_some(unwrap(order_call).margin_amount)
    /\ Len(OrderSignedBytes) = 154
    /\ Len(CancelSignedBytes) = 104

-----------------------------------------------------------------------------
(* C2: for every order intent and every cancel intent, also ones with the  *)
(* same order id, owner and mints, the signing input of sign_perp_order    *)
(* differs from that of sign_cancel, and so do the digests and the         *)
(* signatures.                                                             *)

C2_Differs(order_hex, cancel_hex) ==
    /\ SigningInput(order_hex) # SigningInput(cancel_hex)
    /\ SignedDigest(order_hex) # SignedDigest(cancel_hex)
    /\ SignatureBytes(order_hex) # SignatureBytes(cancel_hex)
    /\ order_hex # cancel_hex

\* C2: a held order's signing input, digest and signature differ from those
\* of every cancel the same key can sign, and from the held cancel's
C2_CategorySeparation ==
    is_some(signed_order) =>
        /\ \A c \in CancelArgs :
             C2_Differs(unwrap(signed_order).request.signature,
                        cancel_signature_hex(keypair, c.order_id, c.mints[1], c.mints[2]))
        /\ is_some(signed_cancel) =>
             C2_Differs(unwrap(signed_order).request.signature,
                        unwrap(signed_cancel).request.signature)

C2_Witness ==
    /\ is_some(signed_order)
    /\ is_some(signed_cancel)
    /\ unwrap(cancel_call).order_id = unwrap(order_call).order_id
    /\ unwrap(cancel_call).mints = <<unwrap(order_call).base_mint, unwrap(order_call).quote_mint>>
    /\ unwrap(signed_cancel).request.owner = unwrap(signed_order).request.intent.owner
    /\ unwrap(signed_cancel).request.signature # unwrap(signed_order).request.signature

-----------------------------------------------------------------------------
(* C3: in sign_perp_order and in sign_cancel the message handed to the     *)
(* Ed25519 signer is the 64 lowercase hex characters of SHA-256(prefix     *)
(* followed by the encoded bytes), not the raw 32-byte digest; the result  *)
(* is a 64-byte signature, output as hex text.                             *)

C3_SignedHexText(signature_hex, prefix, encoded) ==
    /\ signature_hex.alg = "hex_lower"
    /\ ByteLen(signature_hex) = 128
    /\ SignatureBytes(signature_hex).alg = "ed25519"
    /\ SignatureBytes(signature_hex).key = keypair.secret
    /\ ByteLen(SignatureBytes(signature_hex)) = 64
    /\ SignedMessage(signature_hex).alg = "hex_lower"
    /\ ByteLen(SignedMessage(signature_hex)) = 64
    /\ SignedDigest(signature_hex).alg = "sha256"
    /\ ByteLen(SignedDigest(signature_hex)) = 32
    /\ SigningInput(signature_hex) = prefix \o encoded

\* C3: every held signature is hex text of an Ed25519 signature over the
\* lowercase hex text of the SHA-256 digest of prefix and encoded bytes
C3_HexOfDigestSigned ==
    /\ is_some(signed_order) =>
         C3_SignedHexText(unwrap(signed_order).request.signature, SIGNED_ORDER_PREFIX,
                          C1_OrderLayout(keypair, unwrap(order_call)))
    /\ is_some(signed_cancel) =>
         C3_SignedHexText(unwrap(signed_cancel).request.signature, CANCEL_ORDER_PREFIX,
                          C1_CancelLayout(keypair, unwrap(cancel_call)))

C3_Witness ==
    /\ is_some(signed_order)
    /\ is_some(signed_cancel)
    /\ ByteLen(SignedMessage(unwrap(signed_order).request.signature)) = 64
    /\ ByteLen(SignedMessage(unwrap(signed_cancel).request.signature)) = 64

-----------------------------------------------------------------------------
(* C4: signing is deterministic: two calls of sign_perp_order with the     *)
(* same key and the same field values give the same signature, whatever    *)
(* happens between the two calls.                                          *)

-----------------------------------------------------------------------------
(* C5: flipping any single field of an otherwise fixed order intent (order *)
(* id, side, price, quantity, expiry, a mint, leverage, position effect,   *)
(* reduce_only, margin mode, margin amount, present versus absent too)     *)
(* changes the signature.                                                  *)

MintC == new_from_array([i \in 1..32 |-> IF i = 32 THEN 3 ELSE 0])

\* The argument records that differ from `a` in exactly one field
Flips(a) ==
    { [a EXCEPT !.order_id = @ + 1],
      [a EXCEPT !.side = IF @ = "Buy" THEN "Sell" ELSE "Buy"],
      [a EXCEPT !.price = @ + 1],
      [a EXCEPT !.quantity = @ + 1],
      [a EXCEPT !.expiry = @ + 1],
      [a EXCEPT !.base_mint = MintC],
      [a EXCEPT !.quote_mint = MintC],
      [a EXCEPT !.leverage = @ + 1],
      [a EXCEPT !.position_effect = IF @ = "Open" THEN "Close" ELSE "Open"],
      [a EXCEPT !.reduce_only = ~@],
      [a EXCEPT !.margin_mode = IF @ = "Cross" THEN "Isolated" ELSE "Cross"],
      [a EXCEPT !.margin_amount = IF @ = None THEN Some(0) ELSE None],
      [a EXCEPT !.margin_amount = IF @ = None THEN Some(18550000) ELSE Some(@[1] + 1)] }

C5_AllFlipsDiffer(kp, a, signature_hex) ==
    \A v \in Flips(a) : perp_order_signature_hex(kp, v) # signature_hex

\* C5: whenever sign_perp_order returns, each single-field flip of its
\* arguments would have given another signature
C5_FieldSensitive ==
    [][ (is_none(signed_order) /\ is_some(signed_order')) =>
            C5_AllFlipsDiffer(keypair', unwrap(order_call'),
                              unwrap(signed_order').request.signature) ]_vars

C5_Witness ==
    /\ is_some(signed_order)
    /\ is_none(unwrap(order_call).margin_amount)
    /\ Cardinality(Flips(unwrap(order_call))) = 13
    /\ C5_AllFlipsDiffer(keypair, unwrap(order_call), unwrap(signed_order).request.signature)

-----------------------------------------------------------------------------
(* C6: every enumeration field (side, market kind, position effect, margin *)
(* mode) is encoded as a small fixed-width discriminant code, Buy = 0,     *)
(* Sell = 1, perpetual = 0, and the codes are assigned explicitly, not     *)
(* inferred from the declaration order of the variants.                    *)

\* Places of the enumeration codes in the encoded order
SideAt == 41
MarketKindAt == 130
PositionEffectAt == 141
MarginModeAt == 144

Range(f) == {f[i] : i \in DOMAIN f}
IndexOf(variants, v) == CHOOSE i \in 1..Len(variants) : variants[i] = v

\* The declarations with the same variants in any order
Reorderings(variants) ==
    {d \in [1..Len(variants) -> Range(variants)] : Range(d) = Range(variants)}

C6_Codes(b, a) ==
    /\ b[SideAt] = (IF a.side = "Buy" THEN 0 ELSE 1)
    /\ b[MarketKindAt] = 0
    /\ b[PositionEffectAt] = (IF a.position_effect = "Open" THEN 0 ELSE 1)
    /\ b[MarginModeAt] = (IF a.margin_mode = "Cross" THEN 0 ELSE 1)
    /\ Len(b) = (IF is_none(a.margin_amount) THEN 146 ELSE 154)

-----------------------------------------------------------------------------
(* C7: each optional field (leverage, position effect, margin mode, margin *)
(* amount) is encoded as a presence tag, followed by the value when        *)
(* present; an absent margin amount is a tag alone and is not elided;      *)
(* sign_perp_order always encodes leverage, position effect and margin     *)
(* mode as present.                                                        *)

LeverageTagAt == 131
PositionEffectTagAt == 140
MarginModeTagAt == 143
MarginAmountTagAt == 145

\* C7: tag 1 and the value for leverage, position effect and margin mode;
\* for the margin amount tag 1 and its 8 bytes, or the tag 0 alone, with the
\* liquidation byte right after
C7_OptionTags ==
    is_some(signed_order) =>
        LET a == unwrap(order_call)
            b == OrderSignedBytes
        IN  /\ b[LeverageTagAt] = 1
            /\ SubSeq(b, LeverageTagAt + 1, LeverageTagAt + 8) = Le8(a.leverage)
            /\ b[PositionEffectTagAt] = 1
            /\ b[PositionEffectTagAt + 1] \in {0, 1}
            /\ b[MarginModeTagAt] = 1
            /\ b[MarginModeTagAt + 1] \in {0, 1}
            /\ IF is_none(a.margin_amount)
               THEN /\ b[MarginAmountTagAt] = 0
                    /\ Len(b) = MarginAmountTagAt + 1
               ELSE /\ b[MarginAmountTagAt] = 1
                    /\ SubSeq(b, MarginAmountTagAt + 1, MarginAmountTagAt + 8)
                         = Le8(unwrap(a.margin_amount))
                    /\ Len(b) = MarginAmountTagAt + 9

C7_Witness ==
    /\ is_some(signed_order)
    /\ is_none(unwrap(order_call).margin_amount)
    /\ OrderSignedBytes[MarginAmountTagAt] = 0
    /\ Len(OrderSignedBytes) = 146

-----------------------------------------------------------------------------
(* C8: every order sign_perp_order produces has market kind perpetual and  *)
(* liquidation false in the signed encoding, and market_kind "perp" and    *)
(* liquidation false in its JSON intent, whatever the caller passes.       *)

\* C8: for every held order, the market-kind byte is the code of Perp, the
\* last byte (liquidation) is 0, and the JSON intent says "perp" and false
C8_PerpNoLiquidation ==
    is_some(signed_order) =>
        LET b == OrderSignedBytes
            json == SignedOrder_to_json(unwrap(signed_order))
        IN  /\ b[MarketKindAt] = 0
            /\ b[Len(b)] = 0
            /\ unwrap(signed_order).request.intent.market_kind = "perp"
            /\ unwrap(signed_order).request.intent.liquidation = FALSE
            /\ json.intent.market_kind = "perp"
            /\ json.intent.liquidation = FALSE

C8_Witness ==
    /\ is_some(signed_order)
    /\ unwrap(order_call).reduce_only
    /\ unwrap(order_call).side = "Sell"
    /\ OrderSignedBytes[Len(OrderSignedBytes)] = 0
    /\ unwrap(signed_order).request.intent.market_kind = "perp"

-----------------------------------------------------------------------------
(* C9: the envelope submit_order and submit_cancel send carries the raw    *)
(* 64-byte signature the signer produced (not its hex text), the signer's  *)
(* raw 32-byte public key, a nonce equal to the intent's order id, and a   *)
(* timestamp in microseconds.                                              *)

TransactionType(tx) == tx.payload[2]["type"]

C9_Envelope(tx, signature_hex, order_id, kp, now) ==
    /\ tx.signature = SignatureBytes(signature_hex)
    /\ tx.signature.alg = "ed25519"
    /\ tx.signature.key = kp.secret
    /\ ByteLen(tx.signature) = 64
    /\ tx.public_key = kp.public
    /\ Len(tx.public_key) = 32
    /\ tx.nonce = order_id
    /\ tx.timestamp = now

\* C9: the request a submit call puts in flight holds the signature bytes of
\* the submitted artifact, the key's public bytes, the intent's order id as
\* nonce and the clock's microsecond reading at the call
C9_EnvelopeFields ==
    [][ (is_none(transaction) /\ is_some(transaction')) =>
          IF TransactionType(unwrap(transaction')) = "order"
          THEN C9_Envelope(unwrap(transaction'),
                           unwrap(signed_order).request.signature,
                           unwrap(signed_order).request.intent.order_id,
                           keypair, clock)
          ELSE C9_Envelope(unwrap(transaction'),
                           unwrap(signed_cancel).request.signature,
                           unwrap(signed_cancel).request.order_id,
                           keypair, clock) ]_vars

C9_Witness ==
    /\ is_some(transaction)
    /\ is_some(signed_order)
    /\ is_some(signed_cancel)
    /\ TransactionType(unwrap(transaction)) = "cancel"
    /\ unwrap(transaction).timestamp = TickMicros
    /\ unwrap(transaction).nonce = unwrap(cancel_call).order_id
    /\ unwrap(transaction).nonce # unwrap(order_call).order_id
    /\ unwrap(transaction).signature = SignatureBytes(unwrap(signed_cancel).request.signature)

-----------------------------------------------------------------------------
(* C10: the transaction id of an envelope is "frm_order_" for an order and *)
(* "frm_cancel_" for a cancel, then the intent's order id, "_", and the    *)
(* microsecond timestamp the envelope carries in its timestamp field.      *)

\* C10: the tx_id of the request in flight is built from the category, the
\* order id of the submitted artifact and the request's own timestamp
C10_TransactionId ==
    is_some(transaction) =>
        LET tx == unwrap(transaction)
        IN  IF TransactionType(tx) = "order"
            THEN tx.tx_id = "frm_order_"
                              \o ToString(unwrap(signed_order).request.intent.order_id)
                              \o "_" \o ToString(tx.timestamp)
            ELSE tx.tx_id = "frm_cancel_"
                              \o ToString(unwrap(signed_cancel).request.order_id)
                              \o "_" \o ToString(tx.timestamp)

C10_Witness ==
    /\ is_some(transaction)
    /\ TransactionType(unwrap(transaction)) = "order"
    /\ unwrap(order_call).order_id = 12345
    /\ unwrap(transaction).timestamp = TickMicros
    /\ unwrap(transaction).tx_id = "frm_order_12345_" \o ToString(TickMicros)

-----------------------------------------------------------------------------
(* C11: before the payload is rendered, the field map built from the        *)
(* intent's JSON receives local_sequencer_id = "fermi_trade_sdk", a "type"  *)
(* of "order" or "cancel" only when no "type" key is present yet, and       *)
(* timestamp_ms, the envelope's microsecond timestamp divided by 1000 and   *)
(* rounded down, from the same clock read.                                  *)

\* Whether the request in flight was built from the held order
IsOrderEnvelope(tx) ==
    /\ is_some(signed_order)
    /\ tx.signature = SignatureBytes(unwrap(signed_order).request.signature)

EnvelopeCategory(tx) == IF IsOrderEnvelope(tx) THEN "order" ELSE "cancel"

\* The JSON object of the request the envelope was built from
EnvelopeRequestJson(tx) ==
    IF IsOrderEnvelope(tx)
    THEN SignedOrder_to_json(unwrap(signed_order))
    ELSE SignedCancel_to_json(unwrap(signed_cancel))

\* C11: the payload's fields of the request in flight hold the source tag,
\* the category as type, and the text of timestamp \div 1000; a request
\* object that has a type already keeps it
C11_InjectedFields ==
    is_some(transaction) =>
        LET tx == unwrap(transaction)
            fields == tx.payload[2]
            json == EnvelopeRequestJson(tx)
            typed == Map_insert(json, "type", "preset")
            typed_keys == Append(IF IsOrderEnvelope(tx) THEN SignedOrderRequest_fields
                                 ELSE CancelOrderRequest_fields, "type")
        IN  /\ "type" \notin DOMAIN json
            /\ fields["local_sequencer_id"] = "fermi_trade_sdk"
            /\ fields["type"] = EnvelopeCategory(tx)
            /\ fields["timestamp_ms"] = ToString(tx.timestamp \div 1000)
            /\ (tx.timestamp \div 1000) * 1000 <= tx.timestamp
            /\ tx.timestamp < (tx.timestamp \div 1000 + 1) * 1000
            /\ frm_payload(typed, typed_keys, EnvelopeCategory(tx), tx.timestamp)[2]["type"] = "preset"

C11_Witness ==
    /\ is_some(transaction)
    /\ ~IsOrderEnvelope(unwrap(transaction))
    /\ unwrap(transaction).timestamp = TickMicros
    /\ unwrap(transaction).timestamp % 1000 # 0
    /\ unwrap(transaction).payload[2]["type"] = "cancel"
    /\ unwrap(transaction).payload[2]["timestamp_ms"] = ToString(TickMicros \div 1000)

-----------------------------------------------------------------------------
(* C12: the envelope payload is the bytes of the text                       *)
(* "<protocol-id>:<version>:<field-map-text>", where the field-map text is  *)
(* a top-level object holding the augmented field map and a protocol        *)
(* version tag.                                                             *)

Colon == 58

ColonPlaces(bytes) == {i \in 1..Len(bytes) : bytes[i] = Colon}

\* The text has the shape p ":" v ":" with p and v non-empty and colon-free
IsIdVersionPrefix(bytes) ==
    \E i, j \in ColonPlaces(bytes) :
        /\ 1 < i
        /\ i + 1 < j
        /\ j = Len(bytes)
        /\ ColonPlaces(bytes) = {i, j}

\* The object holds the version tag and every entry of the augmented map
HoldsAugmentedMap(tx) ==
    LET fields == tx.payload[2]
        json == EnvelopeRequestJson(tx)
        injected == {"local_sequencer_id", "type", "timestamp_ms"}
    IN  /\ DOMAIN fields = {"version"} \cup DOMAIN json \cup injected
        /\ fields["version"] = "1.0"
        /\ \A k \in DOMAIN json : fields[k] = json[k]

\* C12 as stated: the text before the object is a protocol id, a colon, a
\* version and a colon
C12_ColonSeparatedText ==
    is_some(transaction) =>
        /\ IsIdVersionPrefix(unwrap(transaction).payload[1])
        /\ HoldsAugmentedMap(unwrap(transaction))

\* C12 amended: the payload is the bytes of "FRM_v1.0:" (protocol id and
\* version in one word, a single colon) followed by the text of a top-level
\* object that holds the version tag "1.0" and the augmented field map
C12_PayloadText ==
    is_some(transaction) =>
        /\ unwrap(transaction).payload[1] = <<70, 82, 77, 95, 118, 49, 46, 48, 58>>
        /\ ColonPlaces(unwrap(transaction).payload[1]) = {9}
        /\ HoldsAugmentedMap(unwrap(transaction))

C12_Witness ==
    /\ is_some(transaction)
    /\ IsOrderEnvelope(unwrap(transaction))
    /\ unwrap(transaction).payload[2]["version"] = "1.0"
    /\ unwrap(transaction).payload[2]["intent"].market_kind = "perp"
    /\ ~IsIdVersionPrefix(unwrap(transaction).payload[1])

-----------------------------------------------------------------------------
(* C13: the signature in an envelope covers only the canonical binary       *)
(* encoding of the intent: the same signed order or cancel submitted at two *)
(* different clock times gives envelopes with identical signature and       *)
(* public-key bytes; the injected source tag, type and timestamps never     *)
(* influence the signature.                                                 *)

Epochs == {t \in Instants : t >= 0}

C13_SameSignature(e1, e2, signature_hex) ==
    /\ e1.signature = e2.signature
    /\ e1.public_key = e2.public_key
    /\ e1.signature = SignatureBytes(signature_hex)
    /\ e1.payload # e2.payload
    /\ e1.timestamp # e2.timestamp

\* C13: for every held order and cancel, the envelopes submit_order and
\* submit_cancel build at any two different clock readings carry the same
\* signature and public key, although their payloads and timestamps differ;
\* and what was hashed under the signature is the prefix and the encoding
C13_SignatureCoversEncodingOnly ==
    /\ is_some(signed_order) =>
         /\ \A t1, t2 \in Epochs : t1 # t2 =>
              C13_SameSignature(
                  unwrap(submit_order_request(unwrap(signed_order), t1).transaction),
                  unwrap(submit_order_request(unwrap(signed_order), t2).transaction),
                  unwrap(signed_order).request.signature)
         /\ SigningInput(unwrap(signed_order).request.signature)
              = SIGNED_ORDER_PREFIX \o C1_OrderLayout(keypair, unwrap(order_call))
    /\ is_some(signed_cancel) =>
         /\ \A t1, t2 \in Epochs : t1 # t2 =>
              C13_SameSignature(
                  unwrap(submit_cancel_request(unwrap(signed_cancel), t1).transaction),
                  unwrap(submit_cancel_request(unwrap(signed_cancel), t2).transaction),
                  unwrap(signed_cancel).request.signature)
         /\ SigningInput(unwrap(signed_cancel).request.signature)
              = CANCEL_ORDER_PREFIX \o C1_CancelLayout(keypair, unwrap(cancel_call))
    /\ is_some(transaction) =>
         unwrap(transaction).signature =
             SignatureBytes(IF IsOrderEnvelope(unwrap(transaction))
                            THEN unwrap(signed_order).request.signature
                            ELSE unwrap(signed_cancel).request.signature)

C13_Witness ==
    /\ is_some(signed_order)
    /\ is_some(transaction)
    /\ IsOrderEnvelope(unwrap(transaction))
    /\ unwrap(transaction).timestamp = TickMicros
    /\ unwrap(submit_order_request(unwrap(signed_order), 0).transaction).signature
         = unwrap(transaction).signature
    /\ unwrap(submit_order_request(unwrap(signed_order), 0).transaction).payload
         # unwrap(transaction).payload

-----------------------------------------------------------------------------
(* C14: every failure on the place-order and cancel paths (market lookup,   *)
(* mint parsing, the clock reads for the order id, the expiry and the       *)
(* envelope timestamp, encoding, signing, submission) is returned to the    *)
(* caller as a typed SdkError; no failure ends the call in any other way.   *)

\* C14 as stated: a call that ended returned Ok or an Err of a kind of
\* SdkError
C14_TypedErrorsOnly ==
    is_some(previous) =>
        /\ unwrap(previous).outcome.how \in {"Ok", "Err"}
        /\ unwrap(previous).outcome.how = "Err" =>
             unwrap(previous).outcome.kind \in SdkErrorKinds

-----------------------------------------------------------------------------
(* C15: submit fails with a ConnectionError when the channel to the         *)
(* sequencer cannot be established or reused, and with a SubmissionError    *)
(* carrying the remote status code and message when the service rejects the *)
(* transaction.                                                             *)

\* C15 as stated: a failed connect and a transport failure of the channel in
\* a later call give ContinuumConnection; a rejection gives
\* ContinuumSubmission with the code and the message of the status
C15_ConnectionOrSubmissionError ==
    is_some(previous) =>
        LET p == unwrap(previous)
        IN  /\ (p.op = "new" /\ p.outcome.how = "Err") =>
                 p.outcome.kind = "ContinuumConnection"
            /\ (is_some(p.answer) /\ unwrap(p.answer).source = "transport") =>
                 p.outcome.kind = "ContinuumConnection"
            /\ (is_some(p.answer) /\ ~unwrap(p.answer).ok
                  /\ unwrap(p.answer).source = "remote") =>
                 /\ p.outcome.kind = "ContinuumSubmission"
                 /\ p.outcome.detail = <<unwrap(p.answer).code, unwrap(p.answer).message>>

-----------------------------------------------------------------------------
(* C16: one call of place_perp_order or cancel_order sends at most one      *)
(* submit-transaction request; after a failed or rejected submission the    *)
(* call returns the error without sending a further request.                *)

ActiveCallers == {c \in Callers : is_some(call[c])}

\* C16: a call in progress has sent one request exactly when it awaits the
\* response and none before; a call that ended had sent at most one; a call
\* that ended on an answer of the channel had sent one and left none behind
C16_AtMostOneRequest ==
    /\ \A c \in ActiveCallers :
         unwrap(call[c]).sent = (IF unwrap(call[c]).pc = "response" THEN 1 ELSE 0)
    /\ is_some(previous) =>
         /\ unwrap(previous).sent <= 1
         /\ is_some(unwrap(previous).answer) => unwrap(previous).sent = 1
    /\ ActiveCallers = {} => in_flight = {}

C16_Witness ==
    /\ is_some(previous)
    /\ unwrap(previous).op = "place_perp_order"
    /\ unwrap(previous).outcome.kind = "ContinuumSubmission"
    /\ unwrap(previous).sent = 1
    /\ ActiveCallers = {}
    /\ in_flight = {}

-----------------------------------------------------------------------------
(* C17: if encoding and signing succeed but submission fails, the signed    *)
(* artifact is discarded: nothing of the failed attempt is kept in the      *)
(* client (keypair and configuration unchanged, no stored order id or       *)
(* signature), and a following place_perp_order derives a new order         *)
(* identifier from the clock instead of reusing the failed one.             *)

\* The step in which the call of c ends on a failed submission
SubmissionFails(c) ==
    /\ is_some(call[c])
    /\ unwrap(call[c]).pc = "response"
    /\ is_none(call'[c])
    /\ unwrap(previous').outcome.how = "Err"

\* The step in which the call of c takes its order identifier
TakesOrderId(c) ==
    /\ is_some(call[c])
    /\ unwrap(call[c]).pc = "order_id"
    /\ is_some(call'[c])
    /\ unwrap(call'[c]).pc = "expiry"

\* C17: no step of a call changes the keypair or the client; the step that
\* ends a call on a failed submission leaves no call, no local and no
\* request behind; and the identifier a call takes is the clock's reading at
\* that step, so it differs from a failed one read at another instant
C17_FailedAttemptDiscarded ==
    [][ /\ is_some(client) => (client' = client /\ keypair' = keypair)
        /\ \A c \in Callers :
             /\ SubmissionFails(c) =>
                  /\ \A d \in Callers : is_none(call'[d])
                  /\ in_flight' = {}
                  /\ unwrap(previous').sent = 1
             /\ TakesOrderId(c) =>
                  /\ unwrap(call'[c]).order_id = Some(clock)
                  /\ ( /\ is_some(previous)
                       /\ unwrap(previous).outcome.how = "Err"
                       /\ is_some(unwrap(previous).id_read)
                       /\ unwrap(previous).id_read # Some(clock) )
                     => unwrap(call'[c]).order_id # unwrap(previous).order_id ]_vars

C17_Witness ==
    /\ is_some(previous)
    /\ unwrap(previous).op = "place_perp_order"
    /\ unwrap(previous).outcome.kind = "ContinuumSubmission"
    /\ unwrap(previous).order_id = Some(TickMicros)
    /\ \E c \in Callers :
         /\ is_some(call[c])
         /\ unwrap(call[c]).op = "place_perp_order"
         /\ unwrap(call[c]).order_id = Some(SecondMicros + TickMicros)

-----------------------------------------------------------------------------
(* C18: every order placed through place_perp_order has an expiry equal to  *)
(* the submission time in Unix seconds plus 3600; no field of PerpOrder and *)
(* no argument of place_perp_order can override it.                         *)

ExpiryAt == 58

\* The bytes a call's order was signed over, without the prefix
CallSignedBytes(f) ==
    Drop(SigningInput(unwrap(f.signed).request.signature), Len(SIGNED_ORDER_PREFIX))

\* C18: for every call of place_perp_order that has signed, whatever order
\* and market it was given, the expiry in the JSON intent, in the signed
\* bytes and in the payload sent is the whole seconds of the clock reading
\* taken for it, plus 3600
C18_ExpiryOneHour ==
    \A c \in ActiveCallers :
        LET f == unwrap(call[c])
            expiry == unwrap(f.expiry_read) \div 1000000 + 3600
        IN  (f.op = "place_perp_order" /\ is_some(f.signed)) =>
              /\ unwrap(f.signed).request.intent.expiry = expiry
              /\ SubSeq(CallSignedBytes(f), ExpiryAt, ExpiryAt + 7) = Le8(expiry)
              /\ is_some(f.request) =>
                   unwrap(f.request).payload[2]["intent"].expiry = expiry

C18_Witness ==
    \E c \in ActiveCallers :
        /\ unwrap(call[c]).op = "place_perp_order"
        /\ is_some(unwrap(call[c]).request)
        /\ unwrap(unwrap(call[c]).order).side = "Sell"
        /\ unwrap(unwrap(call[c]).order).reduce_only
        /\ unwrap(call[c]).expiry_read = Some(SecondMicros + TickMicros)
        /\ unwrap(unwrap(call[c]).signed).request.intent.expiry = 3601
        /\ unwrap(unwrap(call[c]).request).timestamp = TickMicros

-----------------------------------------------------------------------------
(* C19: order identifiers are the microsecond wall-clock reading with no    *)
(* collision avoidance: two place_perp_order calls whose order-id clock     *)
(* reads fall in the same microsecond get the same order identifier and     *)
(* the same envelope nonce.                                                 *)

\* C19: the identifier of a call of place_perp_order is the reading of the
\* clock it took, and so is the nonce it sends; a call that read the same
\* microsecond as the place_perp_order call before it has that call's
\* identifier and nonce
C19_ClockOrderIds ==
    \A c \in ActiveCallers :
        LET f == unwrap(call[c])
        IN  (f.op = "place_perp_order" /\ is_some(f.order_id)) =>
              /\ f.order_id = f.id_read
              /\ is_some(f.request) => unwrap(f.request).nonce = unwrap(f.id_read)
              /\ ( /\ is_some(previous)
                   /\ unwrap(previous).op = "place_perp_order"
                   /\ unwrap(previous).id_read = f.id_read )
                 => /\ unwrap(previous).order_id = f.order_id
                    /\ (is_some(unwrap(previous).nonce) /\ is_some(f.request)) =>
                         unwrap(previous).nonce = Some(unwrap(f.request).nonce)

C19_Witness ==
    /\ is_some(previous)
    /\ unwrap(previous).op = "place_perp_order"
    /\ unwrap(previous).outcome.how = "Ok"
    /\ \E c \in ActiveCallers :
         /\ unwrap(call[c]).op = "place_perp_order"
         /\ is_some(unwrap(call[c]).request)
         /\ Some(unwrap(unwrap(call[c]).request).nonce) = unwrap(previous).nonce
         /\ unwrap(call[c]).order_id = unwrap(previous).order_id

-----------------------------------------------------------------------------
(* C20: at most one submission is in flight on a client's sequencer channel *)
(* at any time: a second place_perp_order or cancel_order on the same       *)
(* FermiClient sends its request only after the previous call has received  *)
(* its response or error.                                                   *)

-----------------------------------------------------------------------------
(* C21: for two submissions issued concurrently through independent         *)
(* channels, nothing in the client fixes the order of the sequence numbers  *)
(* the sequencer assigns: both relative orders are reachable, so local call *)
(* order is not preserved in general.                                       *)

\* The calls of submit_order that have returned Ok
Sequenced ==
    {i \in Channels : /\ is_some(link[i])
                      /\ unwrap(link[i]).pc = "done"
                      /\ unwrap(unwrap(link[i]).result).how = "Ok"}

SequenceNumber(i) == unwrap(unwrap(link[i]).result).detail.sequence_number

\* C21: the sequence number in a call's result is the place at which the
\* sequencer ordered its transaction, whatever the order in which the calls
\* were issued: of two results, the one whose transaction arrived first has
\* the smaller number
C21_SequencerAloneOrders ==
    /\ \A i \in Sequenced :
         /\ SequenceNumber(i) \in 1..Len(sequencer.log)
         /\ sequencer.log[SequenceNumber(i)] = i
    /\ \A i, j \in Sequenced :
         i # j => SequenceNumber(i) # SequenceNumber(j)

\* The call issued first got the earlier sequence number
C21_CallOrderKept ==
    \E i, j \in Sequenced :
        /\ unwrap(link[i]).issued = 1
        /\ unwrap(link[j]).issued = 2
        /\ SequenceNumber(i) = 1
        /\ SequenceNumber(j) = 2

\* The call issued first got the later sequence number
C21_Witness ==
    \E i, j \in Sequenced :
        /\ unwrap(link[i]).issued = 1
        /\ unwrap(link[j]).issued = 2
        /\ SequenceNumber(i) = 2
        /\ SequenceNumber(j) = 1

-----------------------------------------------------------------------------
(* C22: to_canonical returns value * 10^decimals, using the quote decimals  *)
(* for the price and the base decimals for the quantity: price 200.0 with 6 *)
(* quote decimals gives 200,000,000 and quantity 1.0 with 9 base decimals   *)
(* gives 1,000,000,000.                                                     *)

RECURSIVE NatLessFrom(_, _, _)
NatLessFrom(a, b, i) ==
    IF i = 0 THEN FALSE
    ELSE IF a[i] # b[i] THEN a[i] < b[i]
    ELSE NatLessFrom(a, b, i - 1)

NatLess(a, b) ==
    IF Len(a) # Len(b) THEN Len(a) < Len(b) ELSE NatLessFrom(a, b, Len(a))

NatLeq(a, b) == a = b \/ NatLess(a, b)

\* r is value * 10^decimals for a value that is whole in those units, and
\* less than one unit away from it otherwise (the u64 holds no fraction)
IsScaled(r, value, decimals) ==
    LET e == 0 - value.exp
        exact == NatMul(value.mant, NatFromInt(Pow10(decimals)))
    IN  /\ e >= 0
        /\ LowBitsZero(exact, e) => ShiftLeft(NatFromInt(r), e) = exact
        /\ NatLess(exact, ShiftLeft(NatFromInt(r + 1), e))
        /\ r > 0 => NatLess(ShiftLeft(NatFromInt(r - 1), e), exact)

\* C22: the price is scaled by 10^quote_decimals and the quantity by
\* 10^base_decimals, for every price, quantity and market evaluated
C22_CanonicalUnits ==
    \A x \in {y \in {calc[i] : i \in DOMAIN calc} : y.op = "units"} :
        is_some(x.canonical) =>
          LET canonical == unwrap(x.canonical)
          IN  /\ IsScaled(canonical[1], x.price, x.market.quote_decimals)
              /\ IsScaled(canonical[2], x.quantity, x.market.base_decimals)
              /\ (x.price = Decimal(200, 0) /\ x.market.quote_decimals = 6)
                   => canonical[1] = 200000000
              /\ (x.quantity = Decimal(1, 0) /\ x.market.base_decimals = 9)
                   => canonical[2] = 1000000000

C22_Witness ==
    /\ is_some(calc)
    /\ unwrap(calc).op = "units"
    /\ unwrap(calc).price = Decimal(200, 0)
    /\ unwrap(calc).quantity = Decimal(1, 0)
    /\ unwrap(calc).market.quote_decimals = 6
    /\ unwrap(calc).market.base_decimals = 9
    /\ unwrap(calc).canonical = Some(<<200000000, 1000000000>>)

-----------------------------------------------------------------------------
(* C23: calculate_margin returns price * quantity / leverage in the         *)
(* collateral's smallest unit (times 10^6): price 185.50, quantity 0.1 and  *)
(* leverage 10 give the canonical amount 1,855,000.                         *)

\* r is at most one unit away from price * quantity / leverage * 10^6
IsMargin(r, price, quantity, leverage) ==
    LET e == 0 - (price.exp + quantity.exp)
        exact == NatMul(NatMul(price.mant, quantity.mant), NatFromInt(Pow10(6)))
        unit == ShiftLeft(NatFromInt(leverage), e)
    IN  /\ e >= 0
        /\ NatLeq(NatMul(NatFromInt(r), unit), NatAdd(exact, unit))
        /\ NatLeq(exact, NatMul(NatFromInt(r + 1), unit))

\* C23: the margin is price * quantity / leverage * 10^6 to within one
\* unit, for every price, quantity and leverage evaluated
C23_MarginAmount ==
    \A x \in {y \in {calc[i] : i \in DOMAIN calc} : y.op = "units"} :
        is_some(x.margin) =>
          /\ IsMargin(unwrap(x.margin), x.price, x.quantity, x.leverage)
          /\ (x.price = Decimal(1855, 1) /\ x.quantity = Decimal(1, 1) /\ x.leverage = 10)
               => unwrap(x.margin) = 1855000

C23_Witness ==
    /\ is_some(calc)
    /\ unwrap(calc).op = "units"
    /\ unwrap(calc).price = Decimal(1855, 1)
    /\ unwrap(calc).quantity = Decimal(1, 1)
    /\ unwrap(calc).leverage = 10
    /\ unwrap(calc).margin = Some(1855000)

-----------------------------------------------------------------------------
(* C24: canonical price and quantity values are reproduced exactly in the   *)
(* rendered payload after the intent is serialised to JSON text, re-parsed  *)
(* into the generic field map and rendered again, for every u64 value up to *)
(* 2^64 - 1.                                                                *)

\* The digits of 2^64 - 1 and of 2^53 + 1
MaxDigits == <<49, 56, 52, 52, 54, 55, 52, 52, 48, 55, 51, 55, 48, 57, 53, 53, 49, 54, 49, 53>>
OddDigits == <<57, 48, 48, 55, 49, 57, 57, 50, 53, 52, 55, 52, 48, 57, 57, 51>>

\* C24: the Value read back holds the u64 that was serialised, and the
\* payload shows the digits of that u64: the numeral rendered has the value
\* of the price (quantity) the intent held
C24_NumbersReproduced ==
    \A x \in {y \in {calc[i] : i \in DOMAIN calc} : y.op = "json"} :
        /\ is_some(x.value) =>
             /\ unwrap(x.value).price = [kind |-> "PosInt", value |-> x.price]
             /\ unwrap(x.value).quantity = [kind |-> "PosInt", value |-> x.quantity]
        /\ is_some(x.payload) =>
             /\ \A i \in DOMAIN unwrap(x.payload).price :
                    unwrap(x.payload).price[i] \in 48..57
             /\ \A i \in DOMAIN unwrap(x.payload).quantity :
                    unwrap(x.payload).quantity[i] \in 48..57
             /\ digits_value(unwrap(x.payload).price) = x.price
             /\ digits_value(unwrap(x.payload).quantity) = x.quantity

C24_Witness ==
    /\ is_some(calc)
    /\ unwrap(calc).op = "json"
    /\ unwrap(calc).price = U64_MAX
    /\ unwrap(calc).quantity = NatAdd(ShiftLeft(<<1>>, 53), <<1>>)
    /\ is_some(unwrap(calc).payload)
    /\ unwrap(unwrap(calc).payload).price = MaxDigits
    /\ unwrap(unwrap(calc).payload).quantity = OddDigits

-----------------------------------------------------------------------------
(* C25: place_perp_order runs its steps strictly in the order market        *)
(* lookup, unit conversion and margin, mint parsing, order-id generation,   *)
(* expiry, encoding and signing, submission; a failure at any step (unknown *)
(* market gives MarketNotFound, a malformed mint gives InvalidPubkey) ends  *)
(* the call before every later step, so nothing is signed or sent after a   *)
(* failed earlier step.                                                     *)

PlaceSteps ==
    << "get_market", "to_canonical", "calculate_margin", "Pubkey::from_str",
       "generate_order_id", "expiry", "sign_perp_order", "submit_order" >>

IsPrefix(s, t) == Len(s) <= Len(t) /\ SubSeq(t, 1, Len(s)) = s

ListedIds == {m.uuid : m \in Markets}

\* The steps of a place_perp_order call, in progress or ended, are the first
\* steps of the list in its order; it holds a signature only after all steps
\* up to the signing and has sent only after all of them
StepsInOrder(steps, has_signed, sent) ==
    /\ IsPrefix(steps, PlaceSteps)
    /\ has_signed <=> "sign_perp_order" \in Range(steps)
    /\ sent > 0 => steps = PlaceSteps

\* C25: every place_perp_order call runs the steps in their order; one past
\* the lookup has the market it asked for; one that ended with
\* MarketNotFound asked for an unlisted market and ran the lookup only; one
\* that ended with InvalidPubkey ran no step after the parsing of the
\* mints; and a call that failed before the submission has signed at most,
\* never sent
C25_StepsInOrder ==
    /\ \A c \in ActiveCallers :
         LET f == unwrap(call[c])
         IN  f.op = "place_perp_order" =>
               /\ StepsInOrder(f.steps, is_some(f.signed), f.sent)
               /\ is_some(f.market) => unwrap(f.market).uuid = f.market_id
               /\ is_some(f.order_id) <=> "generate_order_id" \in Range(f.steps)
               /\ is_some(f.expiry_read) <=> "expiry" \in Range(f.steps)
    /\ \A e \in {previous[i] : i \in DOMAIN previous} :
         e.op = "place_perp_order" =>
           /\ StepsInOrder(e.steps, is_some(e.intent), e.sent)
           /\ e.market_id \notin ListedIds =>
                /\ e.outcome.how = "Err"
                /\ e.outcome.kind \in {"Rpc", "MarketNotFound"}
           /\ e.outcome.kind = "MarketNotFound" =>
                /\ e.market_id \notin ListedIds
                /\ e.steps = <<"get_market">>
           /\ e.outcome.kind = "InvalidPubkey" =>
                e.steps = SubSeq(PlaceSteps, 1, 4)
           /\ e.outcome.kind \in {"Rpc", "MarketNotFound", "InvalidPubkey"} =>
                /\ is_none(e.order_id)
                /\ is_none(e.intent)
                /\ e.sent = 0
           /\ (e.outcome.how # "Ok" /\ e.steps # PlaceSteps) => e.sent = 0

C25_Witness ==
    /\ is_some(previous)
    /\ unwrap(previous).op = "place_perp_order"
    /\ unwrap(previous).market_id = "bad-mint"
    /\ unwrap(previous).outcome.kind = "InvalidPubkey"
    /\ unwrap(previous).steps =
         <<"get_market", "to_canonical", "calculate_margin", "Pubkey::from_str">>
    /\ is_none(unwrap(previous).intent)
    /\ in_flight = {}

-----------------------------------------------------------------------------
(* C26: the payload's field map keeps a canonical key order through the     *)
(* merge of the intent's fields with the injected metadata: the version tag *)
(* first, then the intent representation's fields in their declared order,  *)
(* then the injected source tag, type and millisecond timestamp.            *)

-----------------------------------------------------------------------------
(* C27: for every signed order and cancel, the owner in the signed binary   *)
(* encoding, the base58 owner in the JSON payload and the public_key of the *)
(* envelope all denote the client's own keypair public key; no caller input *)
(* can make any two of them differ.                                         *)

\* The 32-byte identities of the model: the public keys and the mints
Identities == {k.public : k \in Keypairs} \cup {MintA.arr, MintB.arr}

\* The identities a base58 text stands for
Denoted(text) == {id \in Identities : bs58_encode(id) = text}

\* The owner of the encoding: the 32 bytes after the 8 bytes of order_id
OwnerField(encoded) == SubSeq(encoded, 9, 40)

\* The owner text in the payload of a request
PayloadOwner(tx) ==
    IF tx.payload[2]["type"] = "order"
    THEN tx.payload[2]["intent"].owner
    ELSE tx.payload[2]["owner"]

\* C27: whatever the arguments of the call, the owner bytes signed, the owner
\* text of the JSON request and the owner bytes of the artifact are the
\* public key of the keypair, for the order and for the cancel; so are the
\* owner text of the payload and the public_key of the request in flight
C27_OneOwner ==
    /\ is_some(signed_order) =>
         /\ OwnerField(OrderSignedBytes) = keypair.public
         /\ Denoted(unwrap(signed_order).request.intent.owner) = {keypair.public}
         /\ unwrap(signed_order).owner_bytes = keypair.public
    /\ is_some(signed_cancel) =>
         /\ OwnerField(CancelSignedBytes) = keypair.public
         /\ Denoted(unwrap(signed_cancel).request.owner) = {keypair.public}
         /\ unwrap(signed_cancel).owner_bytes = keypair.public
    /\ is_some(transaction) =>
         /\ unwrap(transaction).public_key = keypair.public
         /\ Denoted(PayloadOwner(unwrap(transaction))) = {keypair.public}

C27_Witness ==
    /\ is_some(signed_order)
    /\ is_some(signed_cancel)
    /\ is_some(transaction)
    /\ unwrap(transaction).payload[2]["type"] = "cancel"
    /\ unwrap(cancel_call).mints = <<MintB, MintA>>
    /\ unwrap(transaction).public_key = OwnerField(OrderSignedBytes)
    /\ keypair.secret = 2

-----------------------------------------------------------------------------
(* C28: for every sign_perp_order call, the JSON intent carries the same    *)
(* order_id, side, price, quantity, expiry, mints, leverage, position       *)
(* effect, margin mode, margin amount, reduce_only and liquidation values   *)
(* as the signed binary encoding, so re-deriving the encoding from the JSON *)
(* gives exactly the signed bytes; an absent margin amount is omitted from  *)
(* the JSON and encoded as an absent option in the binary.                  *)

\* The identity a base58 text stands for
FromBase58(text) == CHOOSE id \in Identities : bs58_encode(id) = text

\* An optional 64-bit member of a JSON object, encoded as an option
OptionalLe8(json, key) ==
    IF key \in DOMAIN json THEN <<1>> \o Le8(json[key]) ELSE <<0>>

\* An optional member that names one of two variants, encoded as an option
OptionalTag(json, key, first) ==
    IF key \in DOMAIN json THEN <<1, IF json[key] = first THEN 0 ELSE 1>> ELSE <<0>>

\* The binary encoding of an order, derived from the JSON intent alone
EncodingFromJson(json) ==
    Le8(json["order_id"])
    \o FromBase58(json["owner"])
    \o <<IF json["side"] = "Buy" THEN 0 ELSE 1>>
    \o Le8(json["price"])
    \o Le8(json["quantity"])
    \o Le8(json["expiry"])
    \o FromBase58(json["base_mint"])
    \o FromBase58(json["quote_mint"])
    \o <<IF json["market_kind"] = "perp" THEN 0 ELSE 255>>
    \o OptionalLe8(json, "leverage")
    \o OptionalTag(json, "position_effect", "open")
    \o <<Flag(json["reduce_only"])>>
    \o OptionalTag(json, "margin_mode", "cross")
    \o OptionalLe8(json, "margin_amount")
    \o <<Flag(json["liquidation"])>>

\* C28: the JSON intent of the signed order has the values the call was
\* given; the encoding derived from it is the byte string that was signed; it
\* has a margin_amount exactly when the call gave one, and without one the
\* encoding ends with the absent option (0) and the liquidation byte
C28_JsonMatchesSignedBytes ==
    is_some(signed_order) =>
        LET a == unwrap(order_call)
            json == SignedOrder_to_json(unwrap(signed_order))["intent"]
            bytes == OrderSignedBytes
        IN  /\ json["order_id"] = a.order_id
            /\ json["side"] = a.side
            /\ json["price"] = a.price
            /\ json["quantity"] = a.quantity
            /\ json["expiry"] = a.expiry
            /\ FromBase58(json["base_mint"]) = a.base_mint.arr
            /\ FromBase58(json["quote_mint"]) = a.quote_mint.arr
            /\ json["leverage"] = a.leverage
            /\ json["position_effect"] = (IF a.position_effect = "Open" THEN "open" ELSE "close")
            /\ json["margin_mode"] = (IF a.margin_mode = "Cross" THEN "cross" ELSE "isolated")
            /\ json["reduce_only"] = a.reduce_only
            /\ json["liquidation"] = FALSE
            /\ "margin_amount" \in DOMAIN json <=> a.margin_amount # None
            /\ "margin_amount" \in DOMAIN json => json["margin_amount"] = a.margin_amount[1]
            /\ EncodingFromJson(json) = bytes
            /\ "margin_amount" \notin DOMAIN json =>
                 /\ Len(bytes) = 146
                 /\ bytes[145] = 0
            /\ is_some(transaction) /\ unwrap(transaction).payload[2]["type"] = "order" =>
                 EncodingFromJson(unwrap(transaction).payload[2]["intent"]) = bytes

C28_Witness ==
    /\ is_some(signed_order)
    /\ unwrap(order_call).margin_amount = None
    /\ unwrap(order_call).side = "Sell"
    /\ "margin_amount" \notin DOMAIN SignedOrder_to_json(unwrap(signed_order))["intent"]
    /\ Len(OrderSignedBytes) = 146
    /\ is_some(transaction)
    /\ unwrap(transaction).payload[2]["type"] = "order"

-----------------------------------------------------------------------------
(* C29: the result.order_id of a successful place_perp_order is the         *)
(* identifier that was signed and sent as the nonce; cancel_order with it   *)
(* on the same market signs a cancel whose order id, owner and mints equal  *)
(* those of the order; the cancel envelope has the same nonce and a         *)
(* different transaction id.                                                *)

\* The cancel_order calls in progress that cancel the order of the ended
\* place_perp_order call e on its market and have signed
CancelsOf(e) ==
    { c \in ActiveCallers :
        /\ unwrap(call[c]).op = "cancel_order"
        /\ unwrap(call[c]).cancel_id = Some(e.outcome.detail.order_id)
        /\ unwrap(call[c]).market_id = e.market_id
        /\ is_some(unwrap(call[c]).signed) }

\* C29: when the last call was a place_perp_order that returned a result,
\* the order_id of the result is the id it generated, signed (in the JSON
\* and in the encoding) and sent as nonce; a cancel_order of that id on the
\* same market has signed the same order id, owner and mints, in its JSON
\* and in its encoding, and the request it sends has the order's nonce and
\* a transaction id other than the order's
C29_CancelNamesTheOrder ==
    (/\ is_some(previous)
     /\ unwrap(previous).op = "place_perp_order"
     /\ unwrap(previous).outcome.how = "Ok") =>
        LET e == unwrap(previous)
            id == e.outcome.detail.order_id
        IN  /\ e.order_id = Some(id)
            /\ e.nonce = Some(id)
            /\ unwrap(e.intent).order_id = id
            /\ unwrap(e.intent).encoded.order_id = Le8(id)
            /\ \A c \in CancelsOf(e) :
                 LET f == unwrap(call[c])
                 IN  /\ SignedIntent(f) = unwrap(e.intent)
                     /\ unwrap(f.signed).order_id = id
                     /\ is_some(f.request) =>
                          /\ unwrap(f.request).nonce = unwrap(e.nonce)
                          /\ unwrap(f.request).tx_id # unwrap(e.tx_id)

C29_Witness ==
    /\ is_some(previous)
    /\ unwrap(previous).op = "place_perp_order"
    /\ unwrap(previous).outcome.how = "Ok"
    /\ \E c \in CancelsOf(unwrap(previous)) :
         /\ unwrap(call[c]).pc = "response"
         /\ unwrap(unwrap(call[c]).request).nonce = unwrap(previous).outcome.detail.order_id
         /\ unwrap(unwrap(call[c]).request).timestamp = unwrap(previous).outcome.detail.order_id

-----------------------------------------------------------------------------
(* C30: in submit_order and submit_cancel, if rendering the request to      *)
(* JSON, decoding the hex signature, reading the clock or re-parsing the    *)
(* JSON fails, the error is returned and no request is sent to the          *)
(* sequencer.                                                               *)

\* A signature text that is not hexadecimal
NotHexText == [alg |-> "base64", input |-> <<>>, key |-> 0]

\* A step in which submit_order or submit_cancel is called: nothing is in
\* flight before it, and after it either a request is, or the artifact
\* submitted is gone
OrderSubmitted ==
    /\ is_none(transaction)
    /\ is_some(signed_order)
    /\ \/ is_none(signed_order')
       \/ is_some(transaction') /\ unwrap(transaction').payload[2]["type"] = "order"

CancelSubmitted ==
    /\ is_none(transaction)
    /\ is_some(signed_cancel)
    /\ \/ is_none(signed_cancel')
       \/ is_some(transaction') /\ unwrap(transaction').payload[2]["type"] = "cancel"

=============================================================================
